---- MODULE Spec2Model ----
(***************************************************************************)
(* A model of the indirect object graph (PDFContext) of pdf-lib.           *)
(*                                                                         *)
(* Every JavaScript value is a record with a "cls" field naming its class  *)
(* (or its native type), so that values of different kinds can be compared.*)
(***************************************************************************)
EXTENDS Integers, Sequences, FiniteSets, TLC

VARIABLES
    largestObjectNumber,                 \* PDFContext.largestObjectNumber
    indirectObjects,                     \* PDFContext.indirectObjects, in insertion order
    trailerInfo,                         \* PDFContext.trailerInfo
    pushGraphicsStateContentStreamRef,   \* memoized reference of the "q" stream
    popGraphicsStateContentStreamRef,    \* memoized reference of the "Q" stream
    last,                                \* the last call made: its name, arguments and outcome
    maxAssigned,                         \* history: largest object number assigned or handed out (-1: none)
    input,                               \* the literal handed to obj(), when one is converted
    maxDeleted,                          \* history: largest object number of a mapping delete removed (-1: none)
    security,                            \* the PDFSecurity constructed for the graph (undefined: none)
    previous,                            \* the call that constructed the PDFSecurity before that one (undefined: none)
    encryptFn,                           \* the closure getEncryptFn returned last (undefined: none)
    outputs                              \* history: the last two invocations of the closure held

vars == <<largestObjectNumber, indirectObjects, trailerInfo,
          pushGraphicsStateContentStreamRef, popGraphicsStateContentStreamRef,
          last, input, maxAssigned, maxDeleted, security, previous, encryptFn, outputs>>

----------------------------------------------------------------------------
(* Bounds of the model *)

\* object numbers callers pass to assign, and the cap on the counter
MaxObjNum == 2
\* cap on the number of entries of the mapping
MaxEntries == 2

----------------------------------------------------------------------------
(* Values *)

undefined == [cls |-> "undefined"]

PDFNull == [cls |-> "PDFNull"]

PDFBool_True == [cls |-> "PDFBool", value |-> TRUE]

PDFBool_False == [cls |-> "PDFBool", value |-> FALSE]

PDFNumber_of(n) == [cls |-> "PDFNumber", numberValue |-> n]

PDFString_of(s) == [cls |-> "PDFString", value |-> s]

PDFHexString_of(s) == [cls |-> "PDFHexString", value |-> s]

\* PDFHexString.fromBytes: the hex string that writes out the bytes of a buffer
PDFHexString_fromBytes(bytes) == [cls |-> "PDFHexString", bytes |-> bytes]

PDFRef_of(objectNumber, generationNumber) ==
    [cls |-> "PDFRef", objectNumber |-> objectNumber, generationNumber |-> generationNumber]

PDFArray_of(elements) == [cls |-> "PDFArray", array |-> elements]

\* a PDFDict holds a Map from names to objects; dict is a function on its keys
PDFDict_of(entries) == [cls |-> "PDFDict", dict |-> entries]

PDFContentStream_of(dict, operators) ==
    [cls |-> "PDFContentStream", dict |-> dict, operators |-> operators]

\* result instanceof type, for the classes lookup is asked for
InstanceOf(object, type) ==
    \/ object.cls = type
    \/ type = "PDFStream" /\ object.cls \in {"PDFRawStream", "PDFContentStream"}

----------------------------------------------------------------------------
(* The JavaScript Map behind indirectObjects: a sequence of <<key, value>>  *)
(* pairs with distinct keys, in insertion order.                            *)

MapHas(m, k) == \E i \in 1..Len(m) : m[i][1] = k

MapGet(m, k) ==
    IF MapHas(m, k) THEN m[CHOOSE i \in 1..Len(m) : m[i][1] = k][2] ELSE undefined

\* a faulty variant: set() that appends without looking for the key
MapSet_append(m, k, v) == Append(m, <<k, v>>)

MapSet(m, k, v) ==
    IF MapHas(m, k)
    THEN [i \in 1..Len(m) |-> IF m[i][1] = k THEN <<k, v>> ELSE m[i]]
    ELSE Append(m, <<k, v>>)

MapDelete(m, k) == SelectSeq(m, LAMBDA e : e[1] # k)

MapKeys(m) == {m[i][1] : i \in 1..Len(m)}

----------------------------------------------------------------------------
(* PDFContext: the operations, as functions of a context record *)

Context ==
    [largestObjectNumber |-> largestObjectNumber,
     indirectObjects |-> indirectObjects,
     trailerInfo |-> trailerInfo,
     pushGraphicsStateContentStreamRef |-> pushGraphicsStateContentStreamRef,
     popGraphicsStateContentStreamRef |-> popGraphicsStateContentStreamRef]

create ==
    [largestObjectNumber |-> 0,
     indirectObjects |-> <<>>,
     trailerInfo |-> [Root |-> undefined, Encrypt |-> undefined,
                      Info |-> undefined, ID |-> undefined],
     pushGraphicsStateContentStreamRef |-> undefined,
     popGraphicsStateContentStreamRef |-> undefined]

\* a faulty variant: assign that takes the reference's number as the counter, whatever it is
assign_always(ctx, ref, object) ==
    [ctx EXCEPT
        !.indirectObjects = MapSet(@, ref, object),
        !.largestObjectNumber = ref.objectNumber]

assign(ctx, ref, object) ==
    [ctx EXCEPT
        !.indirectObjects = MapSet(@, ref, object),
        !.largestObjectNumber = IF ref.objectNumber > @ THEN ref.objectNumber ELSE @]

\* a faulty variant: nextRef that numbers from the keys now in the mapping
nextRef_reuse(ctx) ==
    LET numbers == {key.objectNumber : key \in MapKeys(ctx.indirectObjects)} \cup {0}
        top == CHOOSE n \in numbers : \A other \in numbers : other <= n
    IN  [ctx |-> [ctx EXCEPT !.largestObjectNumber = top + 1],
         ret |-> PDFRef_of(top + 1, 0)]

\* a faulty variant: nextRef that returns the counter before incrementing it
nextRef_postIncrement(ctx) ==
    [ctx |-> [ctx EXCEPT !.largestObjectNumber = @ + 1],
     ret |-> PDFRef_of(ctx.largestObjectNumber, 0)]

\* returns the context after the call and the reference returned
nextRef(ctx) ==
    [ctx |-> [ctx EXCEPT !.largestObjectNumber = @ + 1],
     ret |-> PDFRef_of(ctx.largestObjectNumber + 1, 0)]

register(ctx, object) ==
    LET n == nextRef(ctx)
    IN  [ctx |-> assign(n.ctx, n.ret, object), ret |-> n.ret]

\* a faulty variant: delete that winds the counter back to the largest key left
delete_shrink(ctx, ref) ==
    LET left == MapDelete(ctx.indirectObjects, ref)
        numbers == {key.objectNumber : key \in MapKeys(left)} \cup {0}
    IN  [ctx |-> [ctx EXCEPT !.indirectObjects = left,
                             !.largestObjectNumber =
                                 CHOOSE n \in numbers : \A other \in numbers : other <= n],
         ret |-> MapHas(ctx.indirectObjects, ref)]

delete(ctx, ref) ==
    [ctx |-> [ctx EXCEPT !.indirectObjects = MapDelete(@, ref)],
     ret |-> MapHas(ctx.indirectObjects, ref)]

----------------------------------------------------------------------------
(* PDFName: a name is stored in its encoded form ('#' written as "#23") and *)
(* decodeText reads the encoded form back.  Strings are sequences of       *)
(* characters.                                                             *)

IsRegularChar(c) == c # "#"

RECURSIVE encodeName(_)
encodeName(name) ==
    IF name = <<>> THEN <<>>
    ELSE (IF IsRegularChar(Head(name)) THEN <<Head(name)>> ELSE <<"#", "2", "3">>)
         \o encodeName(Tail(name))

PDFName_of(name) == [cls |-> "PDFName", encodedName |-> <<"/">> \o encodeName(name)]

RECURSIVE decodeEncoded(_)
decodeEncoded(encoded) ==
    IF encoded = <<>> THEN <<>>
    ELSE IF Head(encoded) = "#" /\ Len(encoded) >= 3
              /\ encoded[2] = "2" /\ encoded[3] = "3"
         THEN <<"#">> \o decodeEncoded(SubSeq(encoded, 4, Len(encoded)))
         ELSE <<Head(encoded)>> \o decodeEncoded(Tail(encoded))

decodeText(name) == decodeEncoded(Tail(name.encodedName))

----------------------------------------------------------------------------
(* Native literals *)

null == [cls |-> "null"]

String(chars) == [cls |-> "string", chars |-> chars]

Number(n) == [cls |-> "number", value |-> n]

Boolean(b) == [cls |-> "boolean", value |-> b]

\* a native array: items is a sequence
ArrayLit(items) == [cls |-> "Array", items |-> items]

\* a native keyed map: props is a function from its keys (strings) to values
ObjectLit(props) == [cls |-> "Object", props |-> props]

PDFObjectClasses ==
    {"PDFNull", "PDFBool", "PDFNumber", "PDFName", "PDFString", "PDFHexString",
     "PDFRef", "PDFArray", "PDFDict", "PDFContentStream", "PDFRawStream"}

IsPDFObject(v) == v.cls \in PDFObjectClasses

RECURSIVE obj(_)
\* obj without the test for undefined values on the entries of a keyed map
obj_keepAbsent(literal) ==
    IF IsPDFObject(literal) THEN literal
    ELSE IF literal.cls \in {"null", "undefined"} THEN PDFNull
    ELSE IF literal.cls = "string" THEN PDFName_of(literal.chars)
    ELSE IF literal.cls = "number" THEN PDFNumber_of(literal.value)
    ELSE IF literal.cls = "boolean"
         THEN (IF literal.value THEN PDFBool_True ELSE PDFBool_False)
    ELSE IF literal.cls = "Uint8Array" THEN PDFHexString_fromBytes(literal)
    ELSE IF literal.cls = "Array"
         THEN PDFArray_of([idx \in 1..Len(literal.items) |-> obj(literal.items[idx])])
    ELSE LET keys == DOMAIN literal.props
             keyOf(name) == CHOOSE key \in keys : PDFName_of(key) = name
         IN  PDFDict_of([name \in {PDFName_of(key) : key \in keys}
                            |-> obj(literal.props[keyOf(name)])])

obj(literal) ==
    IF IsPDFObject(literal) THEN literal
    ELSE IF literal.cls \in {"null", "undefined"} THEN PDFNull
    ELSE IF literal.cls = "string" THEN PDFName_of(literal.chars)
    ELSE IF literal.cls = "number" THEN PDFNumber_of(literal.value)
    ELSE IF literal.cls = "boolean"
         THEN (IF literal.value THEN PDFBool_True ELSE PDFBool_False)
    ELSE IF literal.cls = "Uint8Array" THEN PDFHexString_fromBytes(literal)
    ELSE IF literal.cls = "Array"
         THEN PDFArray_of([idx \in 1..Len(literal.items) |-> obj(literal.items[idx])])
    ELSE LET keys == {key \in DOMAIN literal.props : literal.props[key] # undefined}
             keyOf(name) == CHOOSE key \in keys : PDFName_of(key) = name
         IN  PDFDict_of([name \in {PDFName_of(key) : key \in keys}
                            |-> obj(literal.props[keyOf(name)])])

\* a LiteralConfig is a function from some of the flag names to booleans
ConfigFlags == {"deep", "literalRef", "literalStreamDict", "literalString"}

Flag(cfg, name, default) == IF name \in DOMAIN cfg THEN cfg[name] ELSE default

\* a faulty variant: deep defaults to false
withDefaults_shallow(cfg) ==
    [deep |-> Flag(cfg, "deep", FALSE),
     literalRef |-> Flag(cfg, "literalRef", FALSE),
     literalStreamDict |-> Flag(cfg, "literalStreamDict", FALSE),
     literalString |-> Flag(cfg, "literalString", FALSE)]

\* the destructuring defaults of getLiteral's second parameter
withDefaults(cfg) ==
    [deep |-> Flag(cfg, "deep", TRUE),
     literalRef |-> Flag(cfg, "literalRef", FALSE),
     literalStreamDict |-> Flag(cfg, "literalStreamDict", FALSE),
     literalString |-> Flag(cfg, "literalString", FALSE)]

RECURSIVE getLiteral(_, _)
getLiteral(object, config) ==
    LET cfg == withDefaults(config)
    IN  IF object.cls = "PDFArray"
        THEN ArrayLit(IF cfg.deep
                      THEN [idx \in 1..Len(object.array)
                                |-> getLiteral(object.array[idx], cfg)]
                      ELSE object.array)
        ELSE IF object.cls = "PDFBool" THEN Boolean(object.value)
        ELSE IF object.cls = "PDFDict"
             THEN LET names == DOMAIN object.dict
                      nameOf(key) == CHOOSE name \in names : getLiteral(name, <<>>).chars = key
                  IN  ObjectLit([key \in {getLiteral(name, <<>>).chars : name \in names}
                                    |-> IF cfg.deep
                                        THEN getLiteral(object.dict[nameOf(key)], cfg)
                                        ELSE object.dict[nameOf(key)]])
        ELSE IF object.cls = "PDFName" THEN String(decodeText(object))
        ELSE IF object.cls = "PDFNull" THEN null
        ELSE IF object.cls = "PDFNumber" THEN Number(object.numberValue)
        ELSE IF object.cls = "PDFRef" /\ cfg.literalRef THEN Number(object.objectNumber)
        ELSE IF InstanceOf(object, "PDFStream") /\ cfg.literalStreamDict
             THEN getLiteral(object.dict, cfg)
        ELSE IF object.cls \in {"PDFString", "PDFHexString"} /\ cfg.literalString
             THEN String(object.value)
        ELSE object

----------------------------------------------------------------------------
(* Lookups.  types is the sequence of classes asked for; the outcome is a  *)
(* value returned or an error thrown.                                      *)

Return(value) == [kind |-> "return", value |-> value]

Throw(error) == [kind |-> "throw", error |-> error]

Resolve(ctx, ref) ==
    IF ref.cls = "PDFRef" THEN MapGet(ctx.indirectObjects, ref) ELSE ref

TypeMatches(result, type) ==
    IF type = "PDFNull" THEN result = PDFNull ELSE InstanceOf(result, type)

\* a faulty variant: lookupMaybe that never preserves the null value
lookupMaybe_dropNull(ctx, ref, types) ==
    LET result == Resolve(ctx, ref)
    IN  [ctx |-> ctx,
         ret |-> IF result = undefined \/ result = PDFNull
                 THEN Return(undefined)
                 ELSE IF \E idx \in 1..Len(types) : TypeMatches(result, types[idx])
                 THEN Return(result)
                 ELSE Throw("UnexpectedObjectTypeError")]

\* both return the context after the call and the outcome
lookupMaybe(ctx, ref, types) ==
    LET preservePDFNull == \E idx \in 1..Len(types) : types[idx] = "PDFNull"
        result == Resolve(ctx, ref)
    IN  [ctx |-> ctx,
         ret |-> IF result = undefined \/ (result = PDFNull /\ ~preservePDFNull)
                 THEN Return(undefined)
                 ELSE IF \E idx \in 1..Len(types) : TypeMatches(result, types[idx])
                 THEN Return(result)
                 ELSE Throw("UnexpectedObjectTypeError")]

\* a faulty variant: lookup answering as lookupMaybe does
lookup_asMaybe(ctx, ref, types) == lookupMaybe(ctx, ref, types)

lookup(ctx, ref, types) ==
    LET result == Resolve(ctx, ref)
    IN  [ctx |-> ctx,
         ret |-> IF Len(types) = 0 THEN Return(result)
                 ELSE IF \E idx \in 1..Len(types) : TypeMatches(result, types[idx])
                 THEN Return(result)
                 ELSE Throw("UnexpectedObjectTypeError")]

----------------------------------------------------------------------------
(* enumerateIndirectObjects: the entries, sorted by the comparator *)

\* a faulty variant: the comparator with its operands swapped
byAscendingObjectNumber_swapped(a, b) == b[1].objectNumber - a[1].objectNumber

byAscendingObjectNumber(a, b) == a[1].objectNumber - b[1].objectNumber

\* Array.prototype.sort is stable: an entry goes after those that compare <= to it
RECURSIVE InsertSorted(_, _)
InsertSorted(sorted, entry) ==
    IF sorted = <<>> THEN <<entry>>
    ELSE IF byAscendingObjectNumber(Head(sorted), entry) <= 0
         THEN <<Head(sorted)>> \o InsertSorted(Tail(sorted), entry)
         ELSE <<entry>> \o sorted

RECURSIVE SortEntries(_)
SortEntries(entries) ==
    IF entries = <<>> THEN <<>>
    ELSE InsertSorted(SortEntries(SubSeq(entries, 1, Len(entries) - 1)),
                      entries[Len(entries)])

enumerateIndirectObjects(ctx) == SortEntries(ctx.indirectObjects)

----------------------------------------------------------------------------
(* The two memoized bracket content streams *)

PushGraphicsState == "q"

PopGraphicsState == "Q"

\* a faulty variant: the getter without its memo check
getPushGraphicsStateContentStream_noMemo(ctx) ==
    LET dict == obj(ObjectLit(<<>>))
        stream == PDFContentStream_of(dict, <<PushGraphicsState>>)
        r == register(ctx, stream)
    IN  [ctx |-> [r.ctx EXCEPT !.pushGraphicsStateContentStreamRef = r.ret],
         ret |-> r.ret]

getPushGraphicsStateContentStream(ctx) ==
    IF ctx.pushGraphicsStateContentStreamRef # undefined
    THEN [ctx |-> ctx, ret |-> ctx.pushGraphicsStateContentStreamRef]
    ELSE LET dict == obj(ObjectLit(<<>>))
             stream == PDFContentStream_of(dict, <<PushGraphicsState>>)
             r == register(ctx, stream)
         IN  [ctx |-> [r.ctx EXCEPT !.pushGraphicsStateContentStreamRef = r.ret],
              ret |-> r.ret]

getPopGraphicsStateContentStream(ctx) ==
    IF ctx.popGraphicsStateContentStreamRef # undefined
    THEN [ctx |-> ctx, ret |-> ctx.popGraphicsStateContentStreamRef]
    ELSE LET dict == obj(ObjectLit(<<>>))
             stream == PDFContentStream_of(dict, <<PopGraphicsState>>)
             r == register(ctx, stream)
         IN  [ctx |-> [r.ctx EXCEPT !.popGraphicsStateContentStreamRef = r.ret],
              ret |-> r.ret]

----------------------------------------------------------------------------
(* State machine of one graph *)

\* the references callers pass to assign and delete
Refs == {PDFRef_of(n, 0) : n \in 0..MaxObjNum} \cup {PDFRef_of(1, 1)}

\* the objects callers store
Objects == {PDFBool_True, PDFNumber_of(1)}

\* a call: its name, its first argument, its second argument, what it returned
Call(op, x, arg, ret) == [op |-> op, x |-> x, arg |-> arg, ret |-> ret]

Commit(ctx) ==
    /\ largestObjectNumber' = ctx.largestObjectNumber
    /\ indirectObjects' = ctx.indirectObjects
    /\ trailerInfo' = ctx.trailerInfo
    /\ pushGraphicsStateContentStreamRef' = ctx.pushGraphicsStateContentStreamRef
    /\ popGraphicsStateContentStreamRef' = ctx.popGraphicsStateContentStreamRef

Max(a, b) == IF a > b THEN a ELSE b

Init ==
    /\ largestObjectNumber = create.largestObjectNumber
    /\ indirectObjects = create.indirectObjects
    /\ trailerInfo = create.trailerInfo
    /\ pushGraphicsStateContentStreamRef = create.pushGraphicsStateContentStreamRef
    /\ popGraphicsStateContentStreamRef = create.popGraphicsStateContentStreamRef
    /\ last = Call("create", undefined, undefined, undefined)
    /\ input = undefined
    /\ maxAssigned = -1
    /\ maxDeleted = -1
    /\ security = undefined
    /\ previous = undefined
    /\ encryptFn = undefined
    /\ outputs = <<>>

Assign(ref, object) ==
    /\ MapHas(indirectObjects, ref) \/ Len(indirectObjects) < MaxEntries
    /\ Commit(assign(Context, ref, object))
    /\ last' = Call("assign", ref, object, undefined)
    /\ maxAssigned' = Max(maxAssigned, ref.objectNumber)
    /\ UNCHANGED <<security, previous, encryptFn, outputs, input, maxDeleted>>

NextRef ==
    /\ largestObjectNumber < MaxObjNum
    /\ LET r == nextRef(Context)
       IN  /\ Commit(r.ctx)
           /\ last' = Call("nextRef", undefined, undefined, r.ret)
           /\ maxAssigned' = Max(maxAssigned, r.ret.objectNumber)
    /\ UNCHANGED <<security, previous, encryptFn, outputs, input, maxDeleted>>

Register(object) ==
    /\ largestObjectNumber < MaxObjNum
    /\ Len(indirectObjects) < MaxEntries
    /\ LET r == register(Context, object)
       IN  /\ Commit(r.ctx)
           /\ last' = Call("register", undefined, object, r.ret)
           /\ maxAssigned' = Max(maxAssigned, r.ret.objectNumber)
    /\ UNCHANGED <<security, previous, encryptFn, outputs, input, maxDeleted>>

Delete(ref) ==
    LET r == delete(Context, ref)
    IN  /\ Commit(r.ctx)
        /\ last' = Call("delete", ref, undefined, r.ret)
        /\ maxDeleted' = IF MapHas(indirectObjects, ref)
                         THEN Max(maxDeleted, ref.objectNumber)
                         ELSE maxDeleted
        /\ UNCHANGED <<security, previous, encryptFn, outputs, input, maxAssigned>>

GetPushGraphicsStateContentStream ==
    /\ \/ pushGraphicsStateContentStreamRef # undefined
       \/ largestObjectNumber < MaxObjNum /\ Len(indirectObjects) < MaxEntries
    /\ LET r == getPushGraphicsStateContentStream(Context)
       IN  /\ Commit(r.ctx)
           /\ last' = Call("getPushGraphicsStateContentStream", undefined, undefined, r.ret)
           /\ maxAssigned' = Max(maxAssigned, r.ret.objectNumber)
    /\ UNCHANGED <<security, previous, encryptFn, outputs, input, maxDeleted>>

GetPopGraphicsStateContentStream ==
    /\ \/ popGraphicsStateContentStreamRef # undefined
       \/ largestObjectNumber < MaxObjNum /\ Len(indirectObjects) < MaxEntries
    /\ LET r == getPopGraphicsStateContentStream(Context)
       IN  /\ Commit(r.ctx)
           /\ last' = Call("getPopGraphicsStateContentStream", undefined, undefined, r.ret)
           /\ maxAssigned' = Max(maxAssigned, r.ret.objectNumber)
    /\ UNCHANGED <<security, previous, encryptFn, outputs, input, maxDeleted>>

EnumerateIndirectObjects ==
    /\ last' = Call("enumerateIndirectObjects", undefined, undefined,
                    enumerateIndirectObjects(Context))
    /\ UNCHANGED <<largestObjectNumber, indirectObjects, trailerInfo,
                   pushGraphicsStateContentStreamRef, popGraphicsStateContentStreamRef,
                   input, maxAssigned, maxDeleted, security, previous, encryptFn, outputs>>

Next ==
    \/ \E ref \in Refs, object \in Objects : Assign(ref, object)
    \/ NextRef
    \/ \E object \in Objects : Register(object)
    \/ \E ref \in Refs : Delete(ref)
    \/ GetPushGraphicsStateContentStream
    \/ GetPopGraphicsStateContentStream
    \/ EnumerateIndirectObjects

Spec == Init /\ [][Next]_vars

----------------------------------------------------------------------------
(* Lookups on a graph holding objects of every kind *)

LookupRefs == {PDFRef_of(1, 0), PDFRef_of(2, 0)}

LookupObjects ==
    {PDFNull, PDFDict_of(<<>>), PDFString_of("s"), PDFRef_of(2, 0),
     PDFContentStream_of(PDFDict_of(<<>>), <<PushGraphicsState>>)}

\* what callers hand to lookup: a reference, an object, or nothing
LookupKeys == LookupRefs \cup LookupObjects \cup {undefined}

TypeLists ==
    {<<>>, <<"PDFNull">>, <<"PDFDict">>, <<"PDFStream">>, <<"PDFRef">>,
     <<"PDFString", "PDFHexString">>, <<"PDFNull", "PDFDict">>}

Lookup(x, types) ==
    LET r == lookup(Context, x, types)
    IN  /\ Commit(r.ctx)
        /\ last' = Call("lookup", x, types, r.ret)
        /\ UNCHANGED <<security, previous, encryptFn, outputs, input, maxAssigned, maxDeleted>>

LookupMaybe(x, types) ==
    LET r == lookupMaybe(Context, x, types)
    IN  /\ Commit(r.ctx)
        /\ last' = Call("lookupMaybe", x, types, r.ret)
        /\ UNCHANGED <<security, previous, encryptFn, outputs, input, maxAssigned, maxDeleted>>

NextLookup ==
    \/ \E ref \in LookupRefs, object \in LookupObjects : Assign(ref, object)
    \/ \E ref \in LookupRefs : Delete(ref)
    \/ \E x \in LookupKeys, types \in TypeLists : Lookup(x, types)
    \/ \E x \in LookupKeys, types \in TypeLists : LookupMaybe(x, types)

SpecLookup == Init /\ [][NextLookup]_vars

----------------------------------------------------------------------------
(* Literal conversions: obj() applied to a literal, then getLiteral()      *)
(* applied to what obj() returned.                                         *)

\* cap on the length of the native arrays converted
MaxLen == 2

Strings == {<<"F">>, <<"#">>}

Keys == {<<"K">>, <<"#">>}

Atoms ==
    {null, Boolean(TRUE), Boolean(FALSE), Number(1)}
    \cup {String(chars) : chars \in Strings}
    \cup {PDFRef_of(1, 0), PDFString_of("s"), PDFHexString_of("AB")}

ArraysOver(values) == {ArrayLit(items) : items \in UNION {[1..n -> values] : n \in 0..MaxLen}}

ObjectsOver(values) ==
    {ObjectLit(props) : props \in UNION {[keys -> values] : keys \in SUBSET Keys}}

\* arrays and keyed maps of atoms
Flat == ArraysOver(Atoms) \cup ObjectsOver(Atoms)

\* the values nested inside the deeper literals
Inner ==
    {null, Number(1), PDFRef_of(1, 0), ArrayLit(<<>>),
     ArrayLit(<<null, Boolean(TRUE)>>),
     ObjectLit([key \in {<<"K">>} |-> String(<<"#">>)]),
     ObjectLit([key \in {<<"K">>} |-> ArrayLit(<<PDFHexString_of("AB"), Number(1)>>)])}

Nested == ArraysOver(Inner) \cup ObjectsOver(Inner)

\* the literals that hold no undefined value
Dense == Atoms \cup Flat \cup Nested

\* keyed maps with undefined values, and such maps inside an array and a map
Sparse ==
    ObjectsOver({undefined, null, Number(1)})
    \cup {ArrayLit(<<undefined, ObjectLit([key \in {<<"K">>} |-> undefined])>>),
          ObjectLit([key \in {<<"K">>} |-> ObjectLit([inner \in Keys |->
                        IF inner = <<"K">> THEN undefined ELSE null])])}

Literals == Dense \cup Sparse \cup {undefined}

Configs == UNION {[flags -> BOOLEAN] : flags \in SUBSET ConfigFlags}

InitLit ==
    /\ largestObjectNumber = create.largestObjectNumber
    /\ indirectObjects = create.indirectObjects
    /\ trailerInfo = create.trailerInfo
    /\ pushGraphicsStateContentStreamRef = create.pushGraphicsStateContentStreamRef
    /\ popGraphicsStateContentStreamRef = create.popGraphicsStateContentStreamRef
    /\ last = Call("create", undefined, undefined, undefined)
    /\ input \in Literals
    /\ maxAssigned = -1
    /\ maxDeleted = -1
    /\ security = undefined
    /\ previous = undefined
    /\ encryptFn = undefined
    /\ outputs = <<>>

Obj ==
    /\ last.op = "create"
    /\ last' = Call("obj", input, undefined, obj(input))
    /\ UNCHANGED <<largestObjectNumber, indirectObjects, trailerInfo,
                   pushGraphicsStateContentStreamRef, popGraphicsStateContentStreamRef,
                   input, maxAssigned, maxDeleted, security, previous, encryptFn, outputs>>

\* getLiteral on the object obj() returned
GetLiteral(cfg) ==
    /\ last.op = "obj"
    /\ last' = Call("getLiteral", last.ret, cfg, getLiteral(last.ret, cfg))
    /\ UNCHANGED <<largestObjectNumber, indirectObjects, trailerInfo,
                   pushGraphicsStateContentStreamRef, popGraphicsStateContentStreamRef,
                   input, maxAssigned, maxDeleted, security, previous, encryptFn, outputs>>

NextLit ==
    \/ Obj
    \/ \E cfg \in Configs : GetLiteral(cfg)

SpecLit == InitLit /\ [][NextLit]_vars

----------------------------------------------------------------------------
(* PDFSecurity: 32-bit integers                                            *)
(*                                                                         *)
(* The bitwise operators of JavaScript work on 32-bit two's-complement     *)
(* integers.  An int32 is modelled by the integer it denotes; its bits are *)
(* numbered 0 (least significant) to 31 (the sign).                        *)

\* the value of bits 0..30 of an int32
Low31(n) == IF n >= 0 THEN n ELSE (n + 2^30) + 2^30

BitAt(n, k) == IF k = 31 THEN (IF n < 0 THEN 1 ELSE 0) ELSE (Low31(n) \div 2^k) % 2

\* ~a
BitNot(a) == IF a >= 0 THEN (0 - a) - 1 ELSE 0 - (a + 1)

\* a & b, for a and b that are not negative
RECURSIVE AndNat(_, _)
AndNat(a, b) ==
    IF a = 0 \/ b = 0 THEN 0
    ELSE (a % 2) * (b % 2) + 2 * AndNat(a \div 2, b \div 2)

\* a & b
BitAnd(a, b) ==
    IF a >= 0 /\ b >= 0 THEN AndNat(a, b)
    ELSE IF a >= 0 THEN a - AndNat(a, BitNot(b))
    ELSE IF b >= 0 THEN b - AndNat(b, BitNot(a))
    ELSE LET na == BitNot(a)
             nb == BitNot(b)
         IN  BitNot(na + (nb - AndNat(na, nb)))

\* a | b
BitOr(a, b) == BitNot(BitAnd(BitNot(a), BitNot(b)))

\* a << n, for 0 < n < 32: bits 0 .. 31 - n of a move up, bit 31 - n becomes the sign
ShiftLeft(a, n) ==
    LET low == Low31(a) % 2^(31 - n)
        moved == IF low = 0 THEN 0 ELSE low * 2^n
    IN  IF BitAt(a, 31 - n) = 1 THEN (moved - 2^30) - 2^30 ELSE moved

\* a >> n, which propagates the sign
ShiftRight(a, n) == a \div 2^n

\* the number written by digits in a base, most significant digit first
RECURSIVE FromDigits(_, _)
FromDigits(digits, base) ==
    IF digits = <<>> THEN 0
    ELSE FromDigits(SubSeq(digits, 1, Len(digits) - 1), base) * base + digits[Len(digits)]

\* 0x<digits> >> 0: the int32 with the bit pattern of an 8-digit hexadecimal literal
Hex32(digits) ==
    IF digits[1] >= 8
    THEN (FromDigits(<<digits[1] - 8>> \o Tail(digits), 16) - 2^30) - 2^30
    ELSE FromDigits(digits, 16)

\* 0b<digits>: a binary literal of at most 31 digits
Binary(digits) == FromDigits(digits, 2)

----------------------------------------------------------------------------
(* PDFSecurity: permission flags *)

\* String.fromCharCode: a native string given by its UTF-16 code units
fromCharCode(codes) == [cls |-> "string", codes |-> codes]

lowResolution == String(<<"l", "o", "w", "R", "e", "s", "o", "l", "u", "t", "i", "o", "n">>)

highResolution == String(<<"h", "i", "g", "h", "R", "e", "s", "o", "l", "u", "t", "i", "o", "n">>)

\* the truthiness of a native value
Truthy(v) ==
    IF v.cls = "boolean" THEN v.value
    ELSE IF v.cls = "string"
         THEN (IF "codes" \in DOMAIN v THEN v.codes # <<>> ELSE v.chars # <<>>)
    ELSE IF v.cls = "number" THEN v.value # 0
    ELSE v.cls \notin {"undefined", "null"}

PermissionNames ==
    {"printing", "modifying", "copying", "annotating",
     "fillingForms", "contentAccessibility", "documentAssembly"}

\* a UserPermissions: a function from some of the permission names to values;
\* a name outside its domain reads as undefined
Permission(permissions, name) ==
    IF name \in DOMAIN permissions THEN permissions[name] ELSE undefined

\* the default of the parameter: permissions = {}
PermissionsOrDefault(permissions) ==
    IF permissions = undefined THEN <<>> ELSE permissions.props

\* if (condition) flags |= mask
OrIf(flags, condition, mask) == IF condition THEN BitOr(flags, mask) ELSE flags

\* a faulty variant: the revision 2 encoder starts from the revision 3 mask
getPermissionsR2_baseR3(permissions) ==
    LET p == PermissionsOrDefault(permissions)
        flags0 == Hex32(<<15, 15, 15, 15, 15, 0, 12, 0>>)
        flags1 == OrIf(flags0, Truthy(Permission(p, "printing")),
                       Binary(<<0,0,0,0,0,0,0,0,0,1,0,0>>))
        flags2 == OrIf(flags1, Truthy(Permission(p, "modifying")),
                       Binary(<<0,0,0,0,0,0,0,0,1,0,0,0>>))
        flags3 == OrIf(flags2, Truthy(Permission(p, "copying")),
                       Binary(<<0,0,0,0,0,0,0,1,0,0,0,0>>))
        flags4 == OrIf(flags3, Truthy(Permission(p, "annotating")),
                       Binary(<<0,0,0,0,0,0,1,0,0,0,0,0>>))
    IN  flags4

getPermissionsR2(permissions) ==
    LET p == PermissionsOrDefault(permissions)
        flags0 == Hex32(<<15, 15, 15, 15, 15, 15, 12, 0>>)
        flags1 == OrIf(flags0, Truthy(Permission(p, "printing")),
                       Binary(<<0,0,0,0,0,0,0,0,0,1,0,0>>))
        flags2 == OrIf(flags1, Truthy(Permission(p, "modifying")),
                       Binary(<<0,0,0,0,0,0,0,0,1,0,0,0>>))
        flags3 == OrIf(flags2, Truthy(Permission(p, "copying")),
                       Binary(<<0,0,0,0,0,0,0,1,0,0,0,0>>))
        flags4 == OrIf(flags3, Truthy(Permission(p, "annotating")),
                       Binary(<<0,0,0,0,0,0,1,0,0,0,0,0>>))
    IN  flags4

\* a faulty variant: high-resolution printing sets bit 13 instead of bit 12
getPermissionsR3_bit13(permissions) ==
    LET p == PermissionsOrDefault(permissions)
        printing == Permission(p, "printing")
        flags0 == Hex32(<<15, 15, 15, 15, 15, 0, 12, 0>>)
        flags1 == OrIf(flags0, printing = lowResolution \/ Truthy(printing),
                       Binary(<<0,0,0,0,0,0,0,0,0,1,0,0>>))
        flags2 == OrIf(flags1, printing = highResolution,
                       Binary(<<1,0,0,0,0,0,0,0,0,0,1,0,0>>))
        flags3 == OrIf(flags2, Truthy(Permission(p, "modifying")),
                       Binary(<<0,0,0,0,0,0,0,0,1,0,0,0>>))
        flags4 == OrIf(flags3, Truthy(Permission(p, "copying")),
                       Binary(<<0,0,0,0,0,0,0,1,0,0,0,0>>))
        flags5 == OrIf(flags4, Truthy(Permission(p, "annotating")),
                       Binary(<<0,0,0,0,0,0,1,0,0,0,0,0>>))
        flags6 == OrIf(flags5, Truthy(Permission(p, "fillingForms")),
                       Binary(<<0,0,0,1,0,0,0,0,0,0,0,0>>))
        flags7 == OrIf(flags6, Truthy(Permission(p, "contentAccessibility")),
                       Binary(<<0,0,1,0,0,0,0,0,0,0,0,0>>))
        flags8 == OrIf(flags7, Truthy(Permission(p, "documentAssembly")),
                       Binary(<<0,1,0,0,0,0,0,0,0,0,0,0>>))
    IN  flags8

getPermissionsR3(permissions) ==
    LET p == PermissionsOrDefault(permissions)
        printing == Permission(p, "printing")
        flags0 == Hex32(<<15, 15, 15, 15, 15, 0, 12, 0>>)
        flags1 == OrIf(flags0, printing = lowResolution \/ Truthy(printing),
                       Binary(<<0,0,0,0,0,0,0,0,0,1,0,0>>))
        flags2 == OrIf(flags1, printing = highResolution,
                       Binary(<<1,0,0,0,0,0,0,0,0,1,0,0>>))
        flags3 == OrIf(flags2, Truthy(Permission(p, "modifying")),
                       Binary(<<0,0,0,0,0,0,0,0,1,0,0,0>>))
        flags4 == OrIf(flags3, Truthy(Permission(p, "copying")),
                       Binary(<<0,0,0,0,0,0,0,1,0,0,0,0>>))
        flags5 == OrIf(flags4, Truthy(Permission(p, "annotating")),
                       Binary(<<0,0,0,0,0,0,1,0,0,0,0,0>>))
        flags6 == OrIf(flags5, Truthy(Permission(p, "fillingForms")),
                       Binary(<<0,0,0,1,0,0,0,0,0,0,0,0>>))
        flags7 == OrIf(flags6, Truthy(Permission(p, "contentAccessibility")),
                       Binary(<<0,0,1,0,0,0,0,0,0,0,0,0>>))
        flags8 == OrIf(flags7, Truthy(Permission(p, "documentAssembly")),
                       Binary(<<0,1,0,0,0,0,0,0,0,0,0,0>>))
    IN  flags8

----------------------------------------------------------------------------
(* The permission encoders applied to every UserPermissions *)

PrintingValues == {Boolean(FALSE), Boolean(TRUE), lowResolution, highResolution}

\* every UserPermissions: any of the names may be absent, printing is a boolean
\* or a resolution, the other flags are booleans; and no UserPermissions at all
PermissionInputs ==
    {undefined} \cup
    {ObjectLit(props) :
        props \in UNION {{f \in [names -> PrintingValues] :
                               \A name \in names \ {"printing"} : f[name].cls = "boolean"} :
                         names \in SUBSET PermissionNames}}

InitPerm ==
    /\ largestObjectNumber = create.largestObjectNumber
    /\ indirectObjects = create.indirectObjects
    /\ trailerInfo = create.trailerInfo
    /\ pushGraphicsStateContentStreamRef = create.pushGraphicsStateContentStreamRef
    /\ popGraphicsStateContentStreamRef = create.popGraphicsStateContentStreamRef
    /\ last = Call("create", undefined, undefined, undefined)
    /\ input \in PermissionInputs
    /\ maxAssigned = -1
    /\ maxDeleted = -1
    /\ security = undefined
    /\ previous = undefined
    /\ encryptFn = undefined
    /\ outputs = <<>>

GetPermissionsR2 ==
    /\ last' = Call("getPermissionsR2", input, undefined, Number(getPermissionsR2(input)))
    /\ UNCHANGED <<largestObjectNumber, indirectObjects, trailerInfo,
                   pushGraphicsStateContentStreamRef, popGraphicsStateContentStreamRef,
                   input, maxAssigned, maxDeleted, security, previous, encryptFn, outputs>>

GetPermissionsR3 ==
    /\ last' = Call("getPermissionsR3", input, undefined, Number(getPermissionsR3(input)))
    /\ UNCHANGED <<largestObjectNumber, indirectObjects, trailerInfo,
                   pushGraphicsStateContentStreamRef, popGraphicsStateContentStreamRef,
                   input, maxAssigned, maxDeleted, security, previous, encryptFn, outputs>>

NextPerm ==
    \/ GetPermissionsR2
    \/ GetPermissionsR3

SpecPerm == InitPerm /\ [][NextPerm]_vars

----------------------------------------------------------------------------
(* PDFSecurity: byte buffers                                               *)
(*                                                                         *)
(* A WordArray and a Uint8Array are modelled by their significant bytes:   *)
(* either the bytes themselves (fn = "bytes", the bytes in data), or what  *)
(* computed them (fn names the function, args are the buffers it was given *)
(* and data its numeric parameters).  Two buffers are the same bytes when  *)
(* they are the same term.                                                 *)

Min(a, b) == IF a < b THEN a ELSE b

WordArray(fn, sigBytes, args, data) ==
    [cls |-> "WordArray", fn |-> fn, sigBytes |-> sigBytes, args |-> args, data |-> data]

\* new Uint8Array(bytes)
Uint8Array_from(bytes) ==
    [cls |-> "Uint8Array", fn |-> "bytes", sigBytes |-> Len(bytes), args |-> <<>>, data |-> bytes]

\* CryptoJS.lib.WordArray.create(typedArray): the bytes of the array
WordArray_fromBuffer(typedArray) == [typedArray EXCEPT !.cls = "WordArray"]

\* the buffer of the bytes given
Bytes(bytes) == WordArray_fromBuffer(Uint8Array_from(bytes))

\* byte j (0 is the most significant) of a 32-bit word
ByteOfWord(word, j) == BitAnd(ShiftRight(word, 8 * (3 - j)), 255)

\* CryptoJS.lib.WordArray.create(words, sigBytes): the first sigBytes bytes of
\* the words, most significant byte first; a missing word reads as 0
WordArray_create(words, sigBytes) ==
    WordArray("bytes", sigBytes, <<>>,
              [i \in 1..sigBytes |->
                  IF (i - 1) \div 4 < Len(words)
                  THEN ByteOfWord(words[((i - 1) \div 4) + 1], (i - 1) % 4)
                  ELSE 0])

\* the first sigBytes bytes of the words, as a Uint8Array
wordArrayToBuffer(wordArray) == [wordArray EXCEPT !.cls = "Uint8Array"]

\* wordArray.sigBytes = n
WithSigBytes(wordArray, n) == [wordArray EXCEPT !.sigBytes = n]

\* a.concat(b): the significant bytes of a, then those of b
concat(a, b) ==
    IF a.sigBytes = 0 THEN b
    ELSE IF b.sigBytes = 0 THEN a
    ELSE IF a.fn = "bytes" /\ b.fn = "bytes"
    THEN WordArray("bytes", a.sigBytes + b.sigBytes, <<>>, a.data \o b.data)
    ELSE WordArray("concat", a.sigBytes + b.sigBytes, <<a, b>>, <<>>)

\* bytes first .. first + count - 1 (from 0) of a buffer
RECURSIVE SliceBytes(_, _, _)
SliceBytes(w, first, count) ==
    IF first = 0 /\ count = w.sigBytes THEN w
    ELSE IF w.fn = "bytes"
         THEN WordArray("bytes", count, <<>>, SubSeq(w.data, first + 1, first + count))
    ELSE IF w.fn = "concat" /\ first + count <= w.args[1].sigBytes
         THEN SliceBytes(w.args[1], first, count)
    ELSE IF w.fn = "concat" /\ first >= w.args[1].sigBytes
         THEN SliceBytes(w.args[2], first - w.args[1].sigBytes, count)
    ELSE WordArray("slice", count, <<w>>, <<first>>)

\* CryptoJS.lib.WordArray.create(wordArray.words.slice(from, to), sigBytes)
WordArray_slice(wordArray, from, to, sigBytes) == SliceBytes(wordArray, 4 * from, sigBytes)

----------------------------------------------------------------------------
(* The primitives of CryptoJS, as functions of the bytes they are given *)

\* CryptoJS.MD5: 16 bytes; data counts the applications, MD5(MD5(x)) is x hashed twice
MD5(message) ==
    IF message.fn = "MD5" /\ message.sigBytes = 16
    THEN [message EXCEPT !.data = <<message.data[1] + 1>>]
    ELSE WordArray("MD5", 16, <<message>>, <<1>>)

\* CryptoJS.SHA256: 32 bytes
SHA256(message) == WordArray("SHA256", 32, <<message>>, <<>>)

\* key.words[j] = words[j] ^ (i | (i << 8) | (i << 16) | (i << 24)), for every word j
XorWords(key, i) ==
    IF i = 0 THEN key ELSE WordArray("xor", key.sigBytes, <<key>>, <<i>>)

\* CryptoJS.RC4.encrypt(message, key).ciphertext: as many bytes as the message;
\* data lists the round indexes of the keys the message went through in turn
RC4_encrypt(message, key) ==
    LET base == IF key.fn = "xor" THEN key.args[1] ELSE key
        i == IF key.fn = "xor" THEN key.data[1] ELSE 0
    IN  IF message.fn = "RC4" /\ message.args[2] = base
        THEN [message EXCEPT !.data = Append(@, i)]
        ELSE WordArray("RC4", message.sigBytes, <<message, base>>, <<i>>)

\* CryptoJS.AES.encrypt(message, key, options).ciphertext: whole blocks of 16
\* bytes, one more than the message fills when the padding is Pkcs7
AES_encrypt(message, key, options) ==
    WordArray("AES-" \o options.mode \o "-" \o options.padding,
              IF options.padding = "Pkcs7"
              THEN 16 * ((message.sigBytes \div 16) + 1)
              ELSE message.sigBytes,
              <<message, key, options.iv>>, <<>>)

----------------------------------------------------------------------------
(* PDFSecurity: passwords *)

PASSWORD_PADDING ==
    <<40, 191, 78, 94, 78, 117, 138, 65, 100, 0, 78, 86, 255,
      250, 1, 8, 46, 46, 0, 182, 208, 104, 62, 128, 47, 12,
      169, 254, 100, 83, 105, 122>>

Error(message) == [cls |-> "Error", message |-> message]

\* the default of the parameter: password = ''
PasswordOrDefault(password) == IF password = undefined THEN <<>> ELSE password.codes

\* a faulty variant: the padding is read from the index written, not from its start
processPasswordR2R3R4_padAtIndex(password) ==
    LET codes == PasswordOrDefault(password)
        length == Len(codes)
        copied == Min(length, 32)
    IN  IF \E index \in 0..(copied - 1) : codes[index + 1] > 255
        THEN Throw(Error("Password contains one or more invalid characters."))
        ELSE Return(WordArray_fromBuffer(Uint8Array_from(
                 [i \in 1..32 |-> IF i - 1 < copied
                                  THEN codes[i]
                                  ELSE PASSWORD_PADDING[i]])))

processPasswordR2R3R4(password) ==
    LET codes == PasswordOrDefault(password)
        length == Len(codes)
        \* the first loop stops at index = copied
        copied == Min(length, 32)
    IN  IF \E index \in 0..(copied - 1) : codes[index + 1] > 255
        THEN Throw(Error("Password contains one or more invalid characters."))
        ELSE Return(WordArray_fromBuffer(Uint8Array_from(
                 [i \in 1..32 |-> IF i - 1 < copied
                                  THEN codes[i]
                                  ELSE PASSWORD_PADDING[(i - 1) - length + 1]])))

\* a Uint8Array element keeps the low 8 bits of what is stored in it
processPasswordR5(password) ==
    LET codes == PasswordOrDefault(password)
        length == Min(127, Len(codes))
    IN  WordArray_fromBuffer(Uint8Array_from([i \in 1..length |-> codes[i] % 256]))

----------------------------------------------------------------------------
(* The password processing applied to passwords of every length *)

\* cap on the length of the passwords processed
MaxPasswordLength == 129

\* a character outside the single-byte range
Euro == 8364

\* the password of n characters, each different from its 255 neighbours, whose
\* character at position bad (from 1; 0: none) is outside the single-byte range
Password(n, bad) ==
    fromCharCode([i \in 1..n |-> IF i = bad THEN Euro ELSE (37 * i) % 256])

PasswordInputs ==
    {undefined} \cup
    UNION {{Password(n, bad) : bad \in {b \in {0, 1, 32, 33, 127, 128} : b <= n}} :
           n \in 0..MaxPasswordLength}

InitPassword ==
    /\ largestObjectNumber = create.largestObjectNumber
    /\ indirectObjects = create.indirectObjects
    /\ trailerInfo = create.trailerInfo
    /\ pushGraphicsStateContentStreamRef = create.pushGraphicsStateContentStreamRef
    /\ popGraphicsStateContentStreamRef = create.popGraphicsStateContentStreamRef
    /\ last = Call("create", undefined, undefined, undefined)
    /\ input \in PasswordInputs
    /\ maxAssigned = -1
    /\ maxDeleted = -1
    /\ security = undefined
    /\ previous = undefined
    /\ encryptFn = undefined
    /\ outputs = <<>>

ProcessPasswordR2R3R4 ==
    /\ last' = Call("processPasswordR2R3R4", input, undefined, processPasswordR2R3R4(input))
    /\ UNCHANGED <<largestObjectNumber, indirectObjects, trailerInfo,
                   pushGraphicsStateContentStreamRef, popGraphicsStateContentStreamRef,
                   input, maxAssigned, maxDeleted, security, previous, encryptFn, outputs>>

ProcessPasswordR5 ==
    /\ last' = Call("processPasswordR5", input, undefined, Return(processPasswordR5(input)))
    /\ UNCHANGED <<largestObjectNumber, indirectObjects, trailerInfo,
                   pushGraphicsStateContentStreamRef, popGraphicsStateContentStreamRef,
                   input, maxAssigned, maxDeleted, security, previous, encryptFn, outputs>>

NextPassword ==
    \/ ProcessPasswordR2R3R4
    \/ ProcessPasswordR5

SpecPassword == InitPassword /\ [][NextPassword]_vars

----------------------------------------------------------------------------
(* PDFSecurity: the entries of the standard security handler *)

lsbFirstWord(data) ==
    BitOr(BitOr(BitOr(ShiftLeft(BitAnd(data, 255), 24),
                      ShiftLeft(BitAnd(data, 65280), 8)),
                BitAnd(ShiftRight(data, 8), 65280)),
          BitAnd(ShiftRight(data, 24), 255))

\* Date.now().toString(): the decimal digits of a number of milliseconds
RECURSIVE toString(_)
toString(n) ==
    IF n < 10 THEN <<48 + n>> ELSE Append(toString(n \div 10), 48 + (n % 10))

\* CryptoJS.enc.Utf8.parse of a string of single-byte characters
Utf8_parse(codes) == WordArray("bytes", Len(codes), <<>>, codes)

\* now is what Date.now() returned
generateFileID(now) == wordArrayToBuffer(MD5(Utf8_parse(toString(now))))

\* CryptoJS.lib.WordArray.random(bytes): drawn is which of the possible words came out
generateRandomWordArray(bytes, drawn) == WordArray("random", bytes, <<>>, <<drawn>>)

\* for (let i = 0; i < round; i++) digest = CryptoJS.MD5(digest)
\* (the rounds are taken in two halves, the second half starting from the value
\* of the first, which keeps the evaluation shallow)
RECURSIVE MD5Rounds(_, _)
MD5Rounds(digest, round) ==
    IF round = 0 THEN digest
    ELSE IF round = 1 THEN MD5(digest)
    ELSE CHOOSE result \in {MD5Rounds(half, rest) :
                                half \in {MD5Rounds(digest, round \div 2)},
                                rest \in {round - (round \div 2)}} : TRUE

\* for (let i = 0; i < round; i++) { key = CryptoJS.MD5(key); key.sigBytes = keyBits / 8 }
RECURSIVE MD5TruncatedRounds(_, _, _)
MD5TruncatedRounds(key, keyBits, round) ==
    IF round = 0 THEN key
    ELSE IF round = 1 THEN WithSigBytes(MD5(key), keyBits \div 8)
    ELSE CHOOSE result \in {MD5TruncatedRounds(half, keyBits, rest) :
                                half \in {MD5TruncatedRounds(key, keyBits, round \div 2)},
                                rest \in {round - (round \div 2)}} : TRUE

\* for (let i = from; i < round; i++) cipher = RC4(cipher, key with every word xored by i)
RECURSIVE RC4Rounds(_, _, _, _)
RC4Rounds(cipher, key, i, round) ==
    IF i >= round THEN cipher
    ELSE IF i + 1 = round THEN RC4_encrypt(cipher, XorWords(key, i))
    ELSE CHOOSE result \in {RC4Rounds(half, key, middle, round) :
                                half \in {RC4Rounds(cipher, key, i, (i + round) \div 2)},
                                middle \in {(i + round) \div 2}} : TRUE

getUserPasswordR2(encryptionKey) ==
    RC4_encrypt(processPasswordR2R3R4(undefined).value, encryptionKey)

\* a faulty variant: the 16 bytes after the cipher are left out
getUserPasswordR3R4_unpadded(documentId, encryptionKey) ==
    LET cipher == MD5(concat(processPasswordR2R3R4(undefined).value,
                             WordArray_fromBuffer(documentId)))
    IN  RC4Rounds(cipher, encryptionKey, 0, 20)

getUserPasswordR3R4(documentId, encryptionKey) ==
    LET cipher == MD5(concat(processPasswordR2R3R4(undefined).value,
                             WordArray_fromBuffer(documentId)))
    IN  concat(RC4Rounds(cipher, encryptionKey, 0, 20), WordArray_create(<<>>, 16))

getOwnerPasswordR2R3R4(r, keyBits, paddedUserPassword, paddedOwnerPassword) ==
    LET digest == MD5Rounds(paddedOwnerPassword, IF r >= 3 THEN 51 ELSE 1)
        key == WithSigBytes(digest, keyBits \div 8)
    IN  RC4Rounds(paddedUserPassword, key, 0, IF r >= 3 THEN 20 ELSE 1)

getEncryptionKeyR2R3R4(r, keyBits, documentId, paddedUserPassword, ownerPasswordEntry, permissions) ==
    LET key == concat(concat(concat(paddedUserPassword, ownerPasswordEntry),
                             WordArray_create(<<lsbFirstWord(permissions)>>, 4)),
                      WordArray_fromBuffer(documentId))
    IN  MD5TruncatedRounds(key, keyBits, IF r >= 3 THEN 51 ELSE 1)

\* generator[name] is what the random source gives at the draw called name
getUserPasswordR5(processedUserPassword, generator) ==
    LET validationSalt == generateRandomWordArray(8, generator["userValidationSalt"])
        keySalt == generateRandomWordArray(8, generator["userKeySalt"])
    IN  concat(concat(SHA256(concat(processedUserPassword, validationSalt)),
                      validationSalt),
               keySalt)

ZeroIV == WordArray_create(<<>>, 16)

getUserEncryptionKeyR5(processedUserPassword, userKeySalt, encryptionKey) ==
    LET key == SHA256(concat(processedUserPassword, userKeySalt))
        options == [mode |-> "CBC", padding |-> "NoPadding", iv |-> ZeroIV]
    IN  AES_encrypt(encryptionKey, key, options)

getOwnerPasswordR5(processedOwnerPassword, userPasswordEntry, generator) ==
    LET validationSalt == generateRandomWordArray(8, generator["ownerValidationSalt"])
        keySalt == generateRandomWordArray(8, generator["ownerKeySalt"])
    IN  concat(concat(SHA256(concat(concat(processedOwnerPassword, validationSalt),
                                    userPasswordEntry)),
                      validationSalt),
               keySalt)

getOwnerEncryptionKeyR5(processedOwnerPassword, ownerKeySalt, userPasswordEntry, encryptionKey) ==
    LET key == SHA256(concat(concat(processedOwnerPassword, ownerKeySalt),
                             userPasswordEntry))
        options == [mode |-> "CBC", padding |-> "NoPadding", iv |-> ZeroIV]
    IN  AES_encrypt(encryptionKey, key, options)

getEncryptionKeyR5(generator) == generateRandomWordArray(32, generator["encryptionKey"])

\* the mode ECB takes no iv
NoIV == WordArray_create(<<>>, 0)

getEncryptedPermissionsR5(permissions, encryptionKey, generator) ==
    LET cipher == concat(WordArray_create(<<lsbFirstWord(permissions),
                                            Hex32(<<15, 15, 15, 15, 15, 15, 15, 15>>),
                                            Hex32(<<5, 4, 6, 1, 6, 4, 6, 2>>)>>, 12),
                         generateRandomWordArray(4, generator["permissions"]))
        options == [mode |-> "ECB", padding |-> "NoPadding", iv |-> NoIV]
    IN  AES_encrypt(cipher, encryptionKey, options)

----------------------------------------------------------------------------
(* class PDFSecurity *)

\* the keys of the Encryption object and the names it holds, as characters
Name ==
    [Filter |-> <<"F", "i", "l", "t", "e", "r">>,
     Standard |-> <<"S", "t", "a", "n", "d", "a", "r", "d">>,
     V |-> <<"V">>,
     R |-> <<"R">>,
     O |-> <<"O">>,
     U |-> <<"U">>,
     P |-> <<"P">>,
     Length |-> <<"L", "e", "n", "g", "t", "h">>,
     CF |-> <<"C", "F">>,
     StdCF |-> <<"S", "t", "d", "C", "F">>,
     AuthEvent |-> <<"A", "u", "t", "h", "E", "v", "e", "n", "t">>,
     DocOpen |-> <<"D", "o", "c", "O", "p", "e", "n">>,
     CFM |-> <<"C", "F", "M">>,
     AESV2 |-> <<"A", "E", "S", "V", "2">>,
     AESV3 |-> <<"A", "E", "S", "V", "3">>,
     StmF |-> <<"S", "t", "m", "F">>,
     StrF |-> <<"S", "t", "r", "F">>,
     OE |-> <<"O", "E">>,
     UE |-> <<"U", "E">>,
     Perms |-> <<"P", "e", "r", "m", "s">>]

\* object.key = value
SetProp(object, key, value) == ObjectLit((key :> value) @@ object.props)

\* object.key
GetProp(object, key) ==
    IF key \in DOMAIN object.props THEN object.props[key] ELSE undefined

\* { key: value }
ObjectOf(key, value) == ObjectLit(key :> value)

\* { StdCF: { AuthEvent: 'DocOpen', CFM: cfm, Length: length } }
CryptFilter(cfm, length) ==
    ObjectOf(Name.StdCF, SetProp(SetProp(ObjectOf(Name.AuthEvent, String(Name.DocOpen)),
                                    Name.CFM, String(cfm)),
                            Name.Length, Number(length)))

\* a SecurityOptions: each of its three properties may be undefined
SecurityOptions(ownerPassword, userPassword, permissions) ==
    [ownerPassword |-> ownerPassword, userPassword |-> userPassword,
     permissions |-> permissions]

\* what initializeV1V2V4 and initializeV5 leave in the handler
Initialized(encryption, keyBits, encryptionKey) ==
    [encryption |-> encryption, keyBits |-> keyBits, encryptionKey |-> encryptionKey]

\* a faulty variant: the owner entry is derived from the file identifier too
initializeV1V2V4_ownerFromId(v, options, id) ==
    IF v \notin {1, 2, 4}
    THEN Throw(Error("Unsupported algorithm."))
    ELSE
    LET r == IF v = 1 THEN 2 ELSE IF v = 2 THEN 3 ELSE 4
        keyBits == IF v = 1 THEN 40 ELSE 128
        permissions == IF v = 1 THEN getPermissionsR2(options.permissions)
                       ELSE getPermissionsR3(options.permissions)
        paddedUser == processPasswordR2R3R4(options.userPassword)
        paddedOwner == IF Truthy(options.ownerPassword)
                       THEN processPasswordR2R3R4(options.ownerPassword)
                       ELSE paddedUser
    IN  IF paddedUser.kind = "throw" THEN paddedUser
        ELSE IF paddedOwner.kind = "throw" THEN paddedOwner
        ELSE
        LET paddedUserPassword == paddedUser.value
            paddedOwnerPassword == paddedOwner.value
            ownerPasswordEntry ==
                getOwnerPasswordR2R3R4(r, keyBits, paddedUserPassword,
                                       concat(paddedOwnerPassword, WordArray_fromBuffer(id)))
            encryptionKey ==
                getEncryptionKeyR2R3R4(r, keyBits, id, paddedUserPassword,
                                       ownerPasswordEntry, permissions)
            userPasswordEntry ==
                IF r = 2 THEN getUserPasswordR2(encryptionKey)
                ELSE getUserPasswordR3R4(id, encryptionKey)
            e0 == ObjectOf(Name.Filter, String(Name.Standard))
            e1 == SetProp(e0, Name.V, Number(v))
            e2 == IF v >= 2 THEN SetProp(e1, Name.Length, Number(keyBits)) ELSE e1
            e3 == IF v = 4
                  THEN SetProp(SetProp(SetProp(e2, Name.CF, CryptFilter(Name.AESV2, keyBits \div 8)),
                                       Name.StmF, String(Name.StdCF)),
                               Name.StrF, String(Name.StdCF))
                  ELSE e2
            e4 == SetProp(e3, Name.R, Number(r))
            e5 == SetProp(e4, Name.O, wordArrayToBuffer(ownerPasswordEntry))
            e6 == SetProp(e5, Name.U, wordArrayToBuffer(userPasswordEntry))
            e7 == SetProp(e6, Name.P, Number(permissions))
        IN  Return(Initialized(e7, keyBits, encryptionKey))

\* a faulty variant: the owner password is processed whether it was given or not
initializeV1V2V4_ownerNotDefaulted(v, options, id) ==
    IF v \notin {1, 2, 4}
    THEN Throw(Error("Unsupported algorithm."))
    ELSE
    LET r == IF v = 1 THEN 2 ELSE IF v = 2 THEN 3 ELSE 4
        keyBits == IF v = 1 THEN 40 ELSE 128
        permissions == IF v = 1 THEN getPermissionsR2(options.permissions)
                       ELSE getPermissionsR3(options.permissions)
        paddedUser == processPasswordR2R3R4(options.userPassword)
        paddedOwner == processPasswordR2R3R4(options.ownerPassword)
    IN  IF paddedUser.kind = "throw" THEN paddedUser
        ELSE IF paddedOwner.kind = "throw" THEN paddedOwner
        ELSE
        LET paddedUserPassword == paddedUser.value
            paddedOwnerPassword == paddedOwner.value
            ownerPasswordEntry ==
                getOwnerPasswordR2R3R4(r, keyBits, paddedUserPassword, paddedOwnerPassword)
            encryptionKey ==
                getEncryptionKeyR2R3R4(r, keyBits, id, paddedUserPassword,
                                       ownerPasswordEntry, permissions)
            userPasswordEntry ==
                IF r = 2 THEN getUserPasswordR2(encryptionKey)
                ELSE getUserPasswordR3R4(id, encryptionKey)
            e0 == ObjectOf(Name.Filter, String(Name.Standard))
            e1 == SetProp(e0, Name.V, Number(v))
            e2 == IF v >= 2 THEN SetProp(e1, Name.Length, Number(keyBits)) ELSE e1
            e3 == IF v = 4
                  THEN SetProp(SetProp(SetProp(e2, Name.CF, CryptFilter(Name.AESV2, keyBits \div 8)),
                                       Name.StmF, String(Name.StdCF)),
                               Name.StrF, String(Name.StdCF))
                  ELSE e2
            e4 == SetProp(e3, Name.R, Number(r))
            e5 == SetProp(e4, Name.O, wordArrayToBuffer(ownerPasswordEntry))
            e6 == SetProp(e5, Name.U, wordArrayToBuffer(userPasswordEntry))
            e7 == SetProp(e6, Name.P, Number(permissions))
        IN  Return(Initialized(e7, keyBits, encryptionKey))

initializeV1V2V4(v, options, id) ==
    IF v \notin {1, 2, 4}
    THEN Throw(Error("Unsupported algorithm."))
    ELSE
    LET r == IF v = 1 THEN 2 ELSE IF v = 2 THEN 3 ELSE 4
        keyBits == IF v = 1 THEN 40 ELSE 128
        permissions == IF v = 1 THEN getPermissionsR2(options.permissions)
                       ELSE getPermissionsR3(options.permissions)
        paddedUser == processPasswordR2R3R4(options.userPassword)
        paddedOwner == IF Truthy(options.ownerPassword)
                       THEN processPasswordR2R3R4(options.ownerPassword)
                       ELSE paddedUser
    IN  IF paddedUser.kind = "throw" THEN paddedUser
        ELSE IF paddedOwner.kind = "throw" THEN paddedOwner
        ELSE
        LET paddedUserPassword == paddedUser.value
            paddedOwnerPassword == paddedOwner.value
            ownerPasswordEntry ==
                getOwnerPasswordR2R3R4(r, keyBits, paddedUserPassword, paddedOwnerPassword)
            encryptionKey ==
                getEncryptionKeyR2R3R4(r, keyBits, id, paddedUserPassword,
                                       ownerPasswordEntry, permissions)
            userPasswordEntry ==
                IF r = 2 THEN getUserPasswordR2(encryptionKey)
                ELSE getUserPasswordR3R4(id, encryptionKey)
            e0 == ObjectOf(Name.Filter, String(Name.Standard))
            e1 == SetProp(e0, Name.V, Number(v))
            e2 == IF v >= 2 THEN SetProp(e1, Name.Length, Number(keyBits)) ELSE e1
            e3 == IF v = 4
                  THEN SetProp(SetProp(SetProp(e2, Name.CF, CryptFilter(Name.AESV2, keyBits \div 8)),
                                       Name.StmF, String(Name.StdCF)),
                               Name.StrF, String(Name.StdCF))
                  ELSE e2
            e4 == SetProp(e3, Name.R, Number(r))
            e5 == SetProp(e4, Name.O, wordArrayToBuffer(ownerPasswordEntry))
            e6 == SetProp(e5, Name.U, wordArrayToBuffer(userPasswordEntry))
            e7 == SetProp(e6, Name.P, Number(permissions))
        IN  Return(Initialized(e7, keyBits, encryptionKey))

\* a faulty variant: the key salt of the owner is read from the user entry
initializeV5_ownerSaltFromU(options, generator) ==
    LET keyBits == 256
        encryptionKey == getEncryptionKeyR5(generator)
        processedUserPassword == processPasswordR5(options.userPassword)
        userPasswordEntry == getUserPasswordR5(processedUserPassword, generator)
        userKeySalt == WordArray_slice(userPasswordEntry, 10, 12, 8)
        userEncryptionKeyEntry ==
            getUserEncryptionKeyR5(processedUserPassword, userKeySalt, encryptionKey)
        processedOwnerPassword ==
            IF Truthy(options.ownerPassword)
            THEN processPasswordR5(options.ownerPassword)
            ELSE processedUserPassword
        ownerPasswordEntry ==
            getOwnerPasswordR5(processedOwnerPassword, userPasswordEntry, generator)
        ownerKeySalt == WordArray_slice(userPasswordEntry, 10, 12, 8)
        ownerEncryptionKeyEntry ==
            getOwnerEncryptionKeyR5(processedOwnerPassword, ownerKeySalt,
                                    userPasswordEntry, encryptionKey)
        permissions == getPermissionsR3(options.permissions)
        permissionsEntry == getEncryptedPermissionsR5(permissions, encryptionKey, generator)
        e0 == ObjectOf(Name.Filter, String(Name.Standard))
        e1 == SetProp(e0, Name.V, Number(5))
        e2 == SetProp(e1, Name.Length, Number(keyBits))
        e3 == SetProp(SetProp(SetProp(e2, Name.CF, CryptFilter(Name.AESV3, keyBits \div 8)),
                              Name.StmF, String(Name.StdCF)),
                      Name.StrF, String(Name.StdCF))
        e4 == SetProp(e3, Name.R, Number(5))
        e5 == SetProp(e4, Name.O, wordArrayToBuffer(ownerPasswordEntry))
        e6 == SetProp(e5, Name.OE, wordArrayToBuffer(ownerEncryptionKeyEntry))
        e7 == SetProp(e6, Name.U, wordArrayToBuffer(userPasswordEntry))
        e8 == SetProp(e7, Name.UE, wordArrayToBuffer(userEncryptionKeyEntry))
        e9 == SetProp(e8, Name.P, Number(permissions))
        e10 == SetProp(e9, Name.Perms, wordArrayToBuffer(permissionsEntry))
    IN  Return(Initialized(e10, keyBits, encryptionKey))

initializeV5(options, generator) ==
    LET keyBits == 256
        encryptionKey == getEncryptionKeyR5(generator)
        processedUserPassword == processPasswordR5(options.userPassword)
        userPasswordEntry == getUserPasswordR5(processedUserPassword, generator)
        userKeySalt == WordArray_slice(userPasswordEntry, 10, 12, 8)
        userEncryptionKeyEntry ==
            getUserEncryptionKeyR5(processedUserPassword, userKeySalt, encryptionKey)
        processedOwnerPassword ==
            IF Truthy(options.ownerPassword)
            THEN processPasswordR5(options.ownerPassword)
            ELSE processedUserPassword
        ownerPasswordEntry ==
            getOwnerPasswordR5(processedOwnerPassword, userPasswordEntry, generator)
        ownerKeySalt == WordArray_slice(ownerPasswordEntry, 10, 12, 8)
        ownerEncryptionKeyEntry ==
            getOwnerEncryptionKeyR5(processedOwnerPassword, ownerKeySalt,
                                    userPasswordEntry, encryptionKey)
        permissions == getPermissionsR3(options.permissions)
        permissionsEntry == getEncryptedPermissionsR5(permissions, encryptionKey, generator)
        e0 == ObjectOf(Name.Filter, String(Name.Standard))
        e1 == SetProp(e0, Name.V, Number(5))
        e2 == SetProp(e1, Name.Length, Number(keyBits))
        e3 == SetProp(SetProp(SetProp(e2, Name.CF, CryptFilter(Name.AESV3, keyBits \div 8)),
                              Name.StmF, String(Name.StdCF)),
                      Name.StrF, String(Name.StdCF))
        e4 == SetProp(e3, Name.R, Number(5))
        e5 == SetProp(e4, Name.O, wordArrayToBuffer(ownerPasswordEntry))
        e6 == SetProp(e5, Name.OE, wordArrayToBuffer(ownerEncryptionKeyEntry))
        e7 == SetProp(e6, Name.U, wordArrayToBuffer(userPasswordEntry))
        e8 == SetProp(e7, Name.UE, wordArrayToBuffer(userEncryptionKeyEntry))
        e9 == SetProp(e8, Name.P, Number(permissions))
        e10 == SetProp(e9, Name.Perms, wordArrayToBuffer(permissionsEntry))
    IN  Return(Initialized(e10, keyBits, encryptionKey))

\* a faulty variant: the case of version 1.5 is missing
Algorithm_without15(version) ==
    IF version \in {"1.4"} THEN 2
    ELSE IF version \in {"1.6", "1.7"} THEN 4
    ELSE IF version = "1.7ext3" THEN 5
    ELSE 1

\* the algorithm of a format version
Algorithm(version) ==
    IF version \in {"1.4", "1.5"} THEN 2
    ELSE IF version \in {"1.6", "1.7"} THEN 4
    ELSE IF version = "1.7ext3" THEN 5
    ELSE 1

\* version is what context.header.getVersionString() returns
initialize(version, options, now, generator) ==
    LET id == generateFileID(now)
        v == Algorithm(version)
        Handler(initialized) ==
            IF initialized.kind = "throw" THEN initialized
            ELSE Return([cls |-> "PDFSecurity",
                         id |-> id,
                         encryption |-> initialized.value.encryption,
                         keyBits |-> initialized.value.keyBits,
                         encryptionKey |-> initialized.value.encryptionKey])
    IN  Handler(IF v \in {1, 2, 4} THEN initializeV1V2V4(v, options, id)
                ELSE initializeV5(options, generator))

\* a faulty variant: only absent passwords are refused, empty ones are not
PDFSecurity_create_emptyAllowed(version, options, now, generator) ==
    IF options.ownerPassword = undefined /\ options.userPassword = undefined
    THEN Throw(Error("Either an owner password or a user password must be specified."))
    ELSE initialize(version, options, now, generator)

\* new PDFSecurity(context, options): the handler, or the error thrown
PDFSecurity_create(version, options, now, generator) ==
    IF ~Truthy(options.ownerPassword) /\ ~Truthy(options.userPassword)
    THEN Throw(Error("Either an owner password or a user password must be specified."))
    ELSE initialize(version, options, now, generator)

\* the closure getEncryptFn returns: what it encrypts with
EncryptFn(algorithm, key, iv) ==
    [cls |-> "EncryptFn", algorithm |-> algorithm, key |-> key, iv |-> iv]

\* a faulty variant: the second byte of the generation number is left out
getEncryptFn_fourBytes(this, obj_, gen, drawn) ==
    LET v == GetProp(this.encryption, Name.V).value
        digest ==
            concat(this.encryptionKey,
                   WordArray_create(
                       <<BitOr(BitOr(BitOr(ShiftLeft(BitAnd(obj_, 255), 24),
                                           ShiftLeft(BitAnd(obj_, 65280), 8)),
                                     BitAnd(ShiftRight(obj_, 8), 65280)),
                               BitAnd(gen, 255)),
                         ShiftLeft(BitAnd(gen, 65280), 16)>>,
                       4))
        iv == generateRandomWordArray(16, drawn)
    IN  IF v < 5 /\ (v = 1 \/ v = 2)
        THEN Return(EncryptFn("RC4",
                              WithSigBytes(MD5(digest), Min(16, (this.keyBits \div 8) + 5)),
                              NoIV))
        ELSE IF v < 5 /\ v = 4
        THEN Return(EncryptFn("AES",
                              MD5(concat(digest,
                                         WordArray_create(<<Hex32(<<7, 3, 4, 1, 6, 12, 5, 4>>)>>, 4))),
                              iv))
        ELSE IF v = 5
        THEN Return(EncryptFn("AES", this.encryptionKey, iv))
        ELSE Throw(Error("Unsupported algorithm."))

\* drawn is which word the random source gives, when it is asked for the iv
getEncryptFn(this, obj_, gen, drawn) ==
    LET v == GetProp(this.encryption, Name.V).value
        digest ==
            concat(this.encryptionKey,
                   WordArray_create(
                       <<BitOr(BitOr(BitOr(ShiftLeft(BitAnd(obj_, 255), 24),
                                           ShiftLeft(BitAnd(obj_, 65280), 8)),
                                     BitAnd(ShiftRight(obj_, 8), 65280)),
                               BitAnd(gen, 255)),
                         ShiftLeft(BitAnd(gen, 65280), 16)>>,
                       5))
        iv == generateRandomWordArray(16, drawn)
    IN  IF v < 5 /\ (v = 1 \/ v = 2)
        THEN Return(EncryptFn("RC4",
                              WithSigBytes(MD5(digest), Min(16, (this.keyBits \div 8) + 5)),
                              NoIV))
        ELSE IF v < 5 /\ v = 4
        THEN Return(EncryptFn("AES",
                              MD5(concat(digest,
                                         WordArray_create(<<Hex32(<<7, 3, 4, 1, 6, 12, 5, 4>>)>>, 4))),
                              iv))
        ELSE IF v = 5
        THEN Return(EncryptFn("AES", this.encryptionKey, iv))
        ELSE Throw(Error("Unsupported algorithm."))

\* a faulty variant: the iv is not put in front of the ciphertext
EncryptFn_call_noPrefix(fn, buffer) ==
    IF fn.algorithm = "RC4"
    THEN wordArrayToBuffer(RC4_encrypt(WordArray_fromBuffer(buffer), fn.key))
    ELSE wordArrayToBuffer(
             AES_encrypt(WordArray_fromBuffer(buffer), fn.key,
                         [mode |-> "CBC", padding |-> "Pkcs7", iv |-> fn.iv]))

\* fn(buffer), for a closure getEncryptFn returned
EncryptFn_call(fn, buffer) ==
    IF fn.algorithm = "RC4"
    THEN wordArrayToBuffer(RC4_encrypt(WordArray_fromBuffer(buffer), fn.key))
    ELSE wordArrayToBuffer(
             concat(fn.iv,
                    AES_encrypt(WordArray_fromBuffer(buffer), fn.key,
                                [mode |-> "CBC", padding |-> "Pkcs7", iv |-> fn.iv])))

\* a faulty variant: the trailer gets a reference the dictionary is not stored under
encrypt_unregistered(ctx, this) ==
    LET ID == obj(ArrayLit(<<this.id, this.id>>))
    IN  [ctx |-> [ctx EXCEPT
                     !.trailerInfo = [@ EXCEPT !.ID = ID,
                                               !.Encrypt = PDFRef_of(ctx.largestObjectNumber + 1, 0)]],
         ret |-> this]

\* returns the context after the call and the handler
\* a faulty variant: an encrypt() that registers the ID array too and names it
\* in the trailer by reference
encrypt_registersID(ctx, this) ==
    LET ID == register(ctx, obj(ArrayLit(<<this.id, this.id>>)))
        Encrypt == obj(this.encryption)
        registered == register(ID.ctx, Encrypt)
    IN  [ctx |-> [registered.ctx EXCEPT
                     !.trailerInfo = [@ EXCEPT !.ID = ID.ret, !.Encrypt = registered.ret]],
         ret |-> this]

encrypt(ctx, this) ==
    LET ID == obj(ArrayLit(<<this.id, this.id>>))
        Encrypt == obj(this.encryption)
        registered == register(ctx, Encrypt)
    IN  [ctx |-> [registered.ctx EXCEPT
                     !.trailerInfo = [@ EXCEPT !.ID = ID, !.Encrypt = registered.ret]],
         ret |-> this]

----------------------------------------------------------------------------
(* State machine of a security handler: construction and encrypt() *)

\* cap on what Date.now() returns
MaxTime == 1

Times == 0..MaxTime

Versions == {"1.3", "1.4", "1.5", "1.6", "1.7", "1.7ext3", "2.0"}

OwnerPasswords ==
    {undefined, fromCharCode(<<>>), fromCharCode(<<111>>), fromCharCode(<<Euro>>),
     fromCharCode(<<117>>), Password(33, 33)}

UserPasswords ==
    {undefined, fromCharCode(<<>>), fromCharCode(<<117>>), fromCharCode(<<Euro>>),
     Password(33, 33)}

HighResolutionAndModifying ==
    ObjectLit([name \in {"printing", "modifying"} |->
                  IF name = "printing" THEN highResolution ELSE Boolean(TRUE)])

PermissionOptions == {undefined, HighResolutionAndModifying}

Options ==
    {SecurityOptions(ownerPassword, userPassword, permissions) :
        ownerPassword \in OwnerPasswords, userPassword \in UserPasswords,
        permissions \in PermissionOptions}

\* the draws of the random source during a construction
Draws ==
    {"encryptionKey", "userValidationSalt", "userKeySalt",
     "ownerValidationSalt", "ownerKeySalt", "permissions"}

\* which word a draw may give
Entropy == {0, 1}

\* what the random source may give during a construction: every draw the first
\* word, every draw the second, the key the second and the salts the first, or
\* the key salt of the user and the validation salt of the owner the second
\* and the others the first; the legacy algorithms draw nothing
Generators(version) ==
    IF Algorithm(version) = 5
    THEN {g \in [Draws -> Entropy] :
             \/ \A d \in Draws : g[d] = g["encryptionKey"]
             \/ \A d \in Draws : g[d] = 1 <=> d = "encryptionKey"
             \/ \A d \in Draws : g[d] = 1 <=> d \in {"userKeySalt", "ownerValidationSalt"}}
    ELSE {[d \in Draws |-> 0]}

\* the options with the user password given as the owner password too
WithUserAsOwner(options) == [options EXCEPT !.ownerPassword = options.userPassword]

\* new PDFSecurity: the first construction for the document, or a second one
\* for the same version on the revision 2 to 4 path (where nothing is drawn),
\* with the same options or with the same options and the user password in
\* the place of an owner password that was not given
\* a faulty variant: a construction that stores the file identifier in the
\* trailer as soon as the handler is built
Construct_storesID(version, options, now, generator) ==
    /\ \/ last.op = "create"
       \/ /\ last.op = "PDFSecurity.create" /\ last.arg = version
          /\ Algorithm(version) # 5
          /\ \/ last.x = options
             \/ last.x.ownerPassword = undefined /\ options = WithUserAsOwner(last.x)
          /\ previous = undefined
    /\ \E created \in {PDFSecurity_create(version, options, now, generator)} :
           /\ security' = IF created.kind = "return" THEN created.value ELSE security
           /\ previous' = IF created.kind = "return" /\ security # undefined
                          THEN last ELSE previous
           /\ last' = Call("PDFSecurity.create", options, version, created)
           /\ trailerInfo' =
                  IF created.kind = "return"
                  THEN [trailerInfo EXCEPT
                           !.ID = obj(ArrayLit(<<created.value.id, created.value.id>>))]
                  ELSE trailerInfo
    /\ UNCHANGED <<largestObjectNumber, indirectObjects,
                   pushGraphicsStateContentStreamRef, popGraphicsStateContentStreamRef,
                   input, maxAssigned, maxDeleted, encryptFn, outputs>>

Construct(version, options, now, generator) ==
    /\ \/ last.op = "create"
       \/ /\ last.op = "PDFSecurity.create" /\ last.arg = version
          /\ Algorithm(version) # 5
          /\ \/ last.x = options
             \/ last.x.ownerPassword = undefined /\ options = WithUserAsOwner(last.x)
          /\ previous = undefined
    /\ \E created \in {PDFSecurity_create(version, options, now, generator)} :
           /\ security' = IF created.kind = "return" THEN created.value ELSE security
           /\ previous' = IF created.kind = "return" /\ security # undefined
                          THEN last ELSE previous
           /\ last' = Call("PDFSecurity.create", options, version, created)
    /\ UNCHANGED <<largestObjectNumber, indirectObjects, trailerInfo,
                   pushGraphicsStateContentStreamRef, popGraphicsStateContentStreamRef,
                   input, maxAssigned, maxDeleted, encryptFn, outputs>>

Encrypt ==
    /\ security # undefined
    /\ largestObjectNumber < MaxObjNum
    /\ Len(indirectObjects) < MaxEntries
    /\ LET r == encrypt(Context, security)
       IN  /\ Commit(r.ctx)
           /\ last' = Call("encrypt", undefined, undefined, r.ret)
           /\ maxAssigned' = Max(maxAssigned, r.ctx.trailerInfo.Encrypt.objectNumber)
    /\ UNCHANGED <<security, previous, encryptFn, outputs, input, maxDeleted>>

NextSecurity ==
    \/ \E version \in Versions, options \in Options, now \in Times :
           \E generator \in Generators(version) :
               Construct(version, options, now, generator)
    \/ Encrypt

\* the context a handler is created for: one with nothing in it, or that of a
\* document, with the catalog registered and named in the trailer
Documents ==
    LET catalog == register(create, PDFDict_of(<<>>))
    IN  {create, [catalog.ctx EXCEPT !.trailerInfo.Root = catalog.ret]}

InitSecurity ==
    \E document \in Documents :
        /\ largestObjectNumber = document.largestObjectNumber
        /\ indirectObjects = document.indirectObjects
        /\ trailerInfo = document.trailerInfo
        /\ pushGraphicsStateContentStreamRef = document.pushGraphicsStateContentStreamRef
        /\ popGraphicsStateContentStreamRef = document.popGraphicsStateContentStreamRef
        /\ last = Call("create", undefined, undefined, undefined)
        /\ input = undefined
        /\ maxAssigned = IF document.indirectObjects = <<>>
                         THEN -1 ELSE document.largestObjectNumber
        /\ maxDeleted = -1
        /\ security = undefined
        /\ previous = undefined
        /\ encryptFn = undefined
        /\ outputs = <<>>

SpecSecurity == InitSecurity /\ [][NextSecurity]_vars

----------------------------------------------------------------------------
(* State machine of the encryption closures of a handler *)

\* object numbers that differ in each of their three low bytes, and one that
\* differs from 1 above them only
ObjectNumbers == {1, 258, 196608, 16777217}

\* generation numbers that differ in each of their two low bytes, and one that
\* differs from 0 above them only
GenerationNumbers == {0, 1, 256, 65536}

\* buffers of no byte, of one byte less than a block, and of a whole block
Buffers ==
    {Uint8Array_from(<<>>), Uint8Array_from([i \in 1..15 |-> i]),
     Uint8Array_from([i \in 1..16 |-> i])}

\* the objects closures are asked for: between them every byte that enters the
\* key differs, and the last differs from the first in the other bytes only
ObjectIds == {<<1, 0>>, <<258, 1>>, <<196608, 256>>, <<16777217, 65536>>}

UserOnly == SecurityOptions(undefined, fromCharCode(<<117>>), undefined)

\* a faulty variant: the bytes of the object are appended to the file key
\* itself, not to a clone of it
GetEncryptFn_noClone(obj_, gen, drawn) ==
    /\ security # undefined
    /\ LET r == getEncryptFn(security, obj_, gen, drawn)
       IN  /\ encryptFn' = IF r.kind = "return" THEN r.value ELSE encryptFn
           /\ outputs' = IF r.kind = "return" THEN <<>> ELSE outputs
           /\ last' = Call("getEncryptFn", Number(obj_), Number(gen), r)
           /\ security' = IF GetProp(security.encryption, Name.V).value < 5
                          THEN [security EXCEPT !.encryptionKey =
                                   concat(@, Bytes(<<obj_ % 256, (obj_ \div 256) % 256,
                                                     (obj_ \div 65536) % 256,
                                                     gen % 256, (gen \div 256) % 256>>))]
                          ELSE security
    /\ UNCHANGED <<largestObjectNumber, indirectObjects, trailerInfo,
                   pushGraphicsStateContentStreamRef, popGraphicsStateContentStreamRef,
                   input, maxAssigned, maxDeleted, previous>>

GetEncryptFn(obj_, gen, drawn) ==
    /\ security # undefined
    /\ LET r == getEncryptFn(security, obj_, gen, drawn)
       IN  /\ encryptFn' = IF r.kind = "return" THEN r.value ELSE encryptFn
           /\ outputs' = IF r.kind = "return" THEN <<>> ELSE outputs
           /\ last' = Call("getEncryptFn", Number(obj_), Number(gen), r)
    /\ UNCHANGED <<largestObjectNumber, indirectObjects, trailerInfo,
                   pushGraphicsStateContentStreamRef, popGraphicsStateContentStreamRef,
                   input, maxAssigned, maxDeleted, security, previous>>

\* an invocation of the closure held; outputs keeps its last two invocations
Invoke(buffer) ==
    /\ encryptFn # undefined
    /\ LET ret == EncryptFn_call(encryptFn, buffer)
           invocation == [fn |-> encryptFn, buffer |-> buffer, ret |-> ret]
       IN  /\ outputs' = IF Len(outputs) < 2 THEN Append(outputs, invocation)
                         ELSE <<outputs[2], invocation>>
           /\ last' = Call("encryptFn", encryptFn, buffer, ret)
    /\ UNCHANGED <<largestObjectNumber, indirectObjects, trailerInfo,
                   pushGraphicsStateContentStreamRef, popGraphicsStateContentStreamRef,
                   input, maxAssigned, maxDeleted, security, previous, encryptFn>>

NextEncryptFn ==
    \/ \E version \in Versions, drawn \in Entropy :
           Construct(version, UserOnly, 0, [d \in Draws |-> drawn])
    \/ \E id \in ObjectIds, drawn \in Entropy : GetEncryptFn(id[1], id[2], drawn)
    \/ \E buffer \in Buffers : Invoke(buffer)
    \/ Encrypt

SpecEncryptFn == Init /\ [][NextEncryptFn]_vars

----------------------------------------------------------------------------
(* The derivation loops of revisions 2 to 4, one iteration at a time       *)
(*                                                                         *)
(* input holds the locals of initializeV1V2V4 and of the derivation it is  *)
(* in: pc names the loop, i is its counter, rounds counts the iterations   *)
(* of each loop and ownerKeys, userKeys list the keys the RC4 rounds used. *)
(* permissionBytes is WordArray.create([lsbFirstWord(permissions)], 4),    *)
(* which depends on the permissions only and is kept from the start.       *)

Rest ==
    <<largestObjectNumber, indirectObjects, trailerInfo,
      pushGraphicsStateContentStreamRef, popGraphicsStateContentStreamRef,
      last, maxAssigned, maxDeleted, security, previous, encryptFn, outputs>>

\* initializeV1V2V4 up to the first loop of getOwnerPasswordR2R3R4
Derivation(v, options, id) ==
    LET paddedUserPassword == processPasswordR2R3R4(options.userPassword).value
    IN  [cls |-> "Derivation", pc |-> "ownerHash", i |-> 0,
         r |-> IF v = 1 THEN 2 ELSE IF v = 2 THEN 3 ELSE 4,
         keyBits |-> IF v = 1 THEN 40 ELSE 128,
         permissions |-> IF v = 1 THEN getPermissionsR2(options.permissions)
                         ELSE getPermissionsR3(options.permissions),
         permissionBytes |->
             WordArray_create(<<lsbFirstWord(IF v = 1 THEN getPermissionsR2(options.permissions)
                                             ELSE getPermissionsR3(options.permissions))>>, 4),
         id |-> id,
         paddedUserPassword |-> paddedUserPassword,
         paddedOwnerPassword |-> IF Truthy(options.ownerPassword)
                                 THEN processPasswordR2R3R4(options.ownerPassword).value
                                 ELSE paddedUserPassword,
         digest |-> IF Truthy(options.ownerPassword)
                    THEN processPasswordR2R3R4(options.ownerPassword).value
                    ELSE paddedUserPassword,
         key |-> undefined, cipher |-> undefined,
         ownerKeys |-> <<>>, userKeys |-> <<>>,
         rounds |-> [ownerHash |-> 0, ownerRC4 |-> 0, keyHash |-> 0, userRC4 |-> 0],
         ownerPasswordEntry |-> undefined, encryptionKey |-> undefined,
         userPasswordEntry |-> undefined]

\* options whose passwords processPasswordR2R3R4 accepts
DeriveOptions ==
    {options \in Options :
        /\ Truthy(options.userPassword) \/ Truthy(options.ownerPassword)
        /\ processPasswordR2R3R4(options.userPassword).kind = "return"
        /\ processPasswordR2R3R4(options.ownerPassword).kind = "return"}

InitDerive ==
    /\ largestObjectNumber = create.largestObjectNumber
    /\ indirectObjects = create.indirectObjects
    /\ trailerInfo = create.trailerInfo
    /\ pushGraphicsStateContentStreamRef = create.pushGraphicsStateContentStreamRef
    /\ popGraphicsStateContentStreamRef = create.popGraphicsStateContentStreamRef
    /\ last = Call("create", undefined, undefined, undefined)
    /\ input \in {Derivation(v, options, generateFileID(now)) :
                     v \in {1, 2, 4}, options \in DeriveOptions, now \in Times}
    /\ maxAssigned = -1
    /\ maxDeleted = -1
    /\ security = undefined
    /\ previous = undefined
    /\ encryptFn = undefined
    /\ outputs = <<>>

\* getOwnerPasswordR2R3R4: for (i < round) digest = MD5(digest), then the
\* statements before the second loop
OwnerHashRound ==
    /\ input.pc = "ownerHash"
    /\ input' = IF input.i < (IF input.r >= 3 THEN 51 ELSE 1)
                THEN [input EXCEPT !.digest = MD5(@), !.i = @ + 1,
                                   !.rounds.ownerHash = @ + 1]
                ELSE [input EXCEPT !.pc = "ownerRC4", !.i = 0,
                                   !.key = WithSigBytes(input.digest, input.keyBits \div 8),
                                   !.cipher = input.paddedUserPassword]
    /\ UNCHANGED Rest

\* a faulty variant: 19 rounds where 20 are due
OwnerRC4Round_19Rounds ==
    /\ input.pc = "ownerRC4"
    /\ input' = IF input.i < (IF input.r >= 3 THEN 19 ELSE 1)
                THEN [input EXCEPT
                         !.key = XorWords(WithSigBytes(input.digest, input.keyBits \div 8),
                                          input.i),
                         !.cipher = RC4_encrypt(@, XorWords(WithSigBytes(input.digest,
                                                                         input.keyBits \div 8),
                                                            input.i)),
                         !.ownerKeys = Append(@, XorWords(WithSigBytes(input.digest,
                                                                       input.keyBits \div 8),
                                                          input.i)),
                         !.i = @ + 1, !.rounds.ownerRC4 = @ + 1]
                ELSE [input EXCEPT
                         !.pc = "keyHash", !.i = 0,
                         !.ownerPasswordEntry = input.cipher,
                         !.key = concat(concat(concat(input.paddedUserPassword, input.cipher),
                                               input.permissionBytes),
                                        WordArray_fromBuffer(input.id))]
    /\ UNCHANGED Rest

\* getOwnerPasswordR2R3R4: for (i < round) { key.words[j] = digest.words[j] ^ i..;
\* cipher = RC4(cipher, key) }, return cipher, then getEncryptionKeyR2R3R4 up
\* to its loop
OwnerRC4Round ==
    /\ input.pc = "ownerRC4"
    /\ input' = IF input.i < (IF input.r >= 3 THEN 20 ELSE 1)
                THEN [input EXCEPT
                         !.key = XorWords(WithSigBytes(input.digest, input.keyBits \div 8),
                                          input.i),
                         !.cipher = RC4_encrypt(@, XorWords(WithSigBytes(input.digest,
                                                                         input.keyBits \div 8),
                                                            input.i)),
                         !.ownerKeys = Append(@, XorWords(WithSigBytes(input.digest,
                                                                       input.keyBits \div 8),
                                                          input.i)),
                         !.i = @ + 1, !.rounds.ownerRC4 = @ + 1]
                ELSE [input EXCEPT
                         !.pc = "keyHash", !.i = 0,
                         !.ownerPasswordEntry = input.cipher,
                         !.key = concat(concat(concat(input.paddedUserPassword, input.cipher),
                                               input.permissionBytes),
                                        WordArray_fromBuffer(input.id))]
    /\ UNCHANGED Rest

\* getEncryptionKeyR2R3R4: for (i < round) { key = MD5(key); key.sigBytes = .. },
\* return key, then getUserPasswordR2, or getUserPasswordR3R4 up to its loop
KeyHashRound ==
    /\ input.pc = "keyHash"
    /\ input' = IF input.i < (IF input.r >= 3 THEN 51 ELSE 1)
                THEN [input EXCEPT !.key = WithSigBytes(MD5(@), input.keyBits \div 8),
                                   !.i = @ + 1, !.rounds.keyHash = @ + 1]
                ELSE IF input.r = 2
                THEN [input EXCEPT !.pc = "done", !.encryptionKey = input.key,
                                   !.userPasswordEntry = getUserPasswordR2(input.key)]
                ELSE [input EXCEPT
                         !.pc = "userRC4", !.i = 0, !.encryptionKey = input.key,
                         !.cipher = MD5(concat(processPasswordR2R3R4(undefined).value,
                                               WordArray_fromBuffer(input.id)))]
    /\ UNCHANGED Rest

\* getUserPasswordR3R4: for (i < 20) { key.words[j] = encryptionKey.words[j] ^ i..;
\* cipher = RC4(cipher, key) }, return cipher.concat(16 zero bytes)
UserRC4Round ==
    /\ input.pc = "userRC4"
    /\ input' = IF input.i < 20
                THEN [input EXCEPT
                         !.key = XorWords(input.encryptionKey, input.i),
                         !.cipher = RC4_encrypt(@, XorWords(input.encryptionKey, input.i)),
                         !.userKeys = Append(@, XorWords(input.encryptionKey, input.i)),
                         !.i = @ + 1, !.rounds.userRC4 = @ + 1]
                ELSE [input EXCEPT
                         !.pc = "done",
                         !.userPasswordEntry = concat(input.cipher, WordArray_create(<<>>, 16))]
    /\ UNCHANGED Rest

NextDerive ==
    \/ OwnerHashRound
    \/ OwnerRC4Round
    \/ KeyHashRound
    \/ UserRC4Round

\* every loop takes its next iteration as long as the derivation is not done
SpecDerive == InitDerive /\ [][NextDerive]_vars /\ WF_vars(NextDerive)

----------------------------------------------------------------------------
(* Properties *)

ContextKeys == MapKeys(indirectObjects)

Allocators == {"nextRef", "register"}

Getters == {"getPushGraphicsStateContentStream", "getPopGraphicsStateContentStream"}

\* C1: the reference nextRef() or register() returns has generation 0 and an
\* object number above that of every reference assigned or handed out before
\* on the graph, deleted or not; on a fresh graph the first one is number 1.
C1_NextRefExceedsAll ==
    [][last'.op \in Allocators =>
          /\ last'.ret.generationNumber = 0
          /\ last'.ret.objectNumber > maxAssigned
          /\ (last.op = "create" => last'.ret = PDFRef_of(1, 0))]_vars

\* nextRef() right after the mapping with the largest number was deleted
C1_Witness ==
    /\ last.op \in Allocators
    /\ maxDeleted >= 1
    /\ last.ret.objectNumber = maxDeleted + 1
    /\ \A key \in ContextKeys : key.objectNumber < maxDeleted

\* C2, as stated: no key of the mapping has object number 0, whatever
\* references callers pass to assign.
C2_NoKeyNumberZero == \A key \in ContextKeys : key.objectNumber > 0

\* C2, amended: the references nextRef(), register() and the bracket-stream
\* getters return have a strictly positive object number, and a key with
\* object number 0 enters the mapping only by a caller's assign of it.
C2_ZeroKeyOnlyByAssign ==
    [][/\ last'.op \in Allocators \cup Getters => last'.ret.objectNumber > 0
       /\ \A key \in MapKeys(indirectObjects') \ ContextKeys :
              key.objectNumber <= 0 => last'.op = "assign" /\ last'.x = key]_vars

\* a caller has assigned reference 0 0 R, and registrations went on after it
C2_Witness ==
    /\ MapHas(indirectObjects, PDFRef_of(0, 0))
    /\ last.op = "register"
    /\ last.ret.objectNumber > 0

\* C3: largestObjectNumber starts at 0, never decreases, is at least the
\* object number of every key; assign changes it only to a larger
\* ref.objectNumber, and delete never changes it.
C3_LargestObjectNumber ==
    /\ largestObjectNumber = 0
    /\ [](\A key \in ContextKeys : key.objectNumber <= largestObjectNumber)
    /\ [][/\ largestObjectNumber' >= largestObjectNumber
          /\ last'.op = "assign" =>
                 largestObjectNumber' =
                     IF last'.x.objectNumber > largestObjectNumber
                     THEN last'.x.objectNumber ELSE largestObjectNumber
          /\ last'.op = "delete" => largestObjectNumber' = largestObjectNumber]_vars

\* an assign below the counter, after a deletion and a getter call
C3_Witness ==
    /\ last.op = "assign"
    /\ last.x.objectNumber < largestObjectNumber
    /\ maxDeleted >= 0
    /\ pushGraphicsStateContentStreamRef # undefined

\* C4: a reference maps to at most one object; lookup(r) gives the object last
\* assigned to r until r is assigned or deleted again; assigning a key that
\* is present replaces its object and leaves the number of entries alone.
C4_AssignReplaces ==
    /\ [](\A i, j \in 1..Len(indirectObjects) :
              indirectObjects[i][1] = indirectObjects[j][1] => i = j)
    /\ [][/\ last'.op = "assign" =>
                 /\ lookup(Context', last'.x, <<>>).ret = Return(last'.arg)
                 /\ MapHas(indirectObjects, last'.x) =>
                        Len(enumerateIndirectObjects(Context'))
                            = Len(enumerateIndirectObjects(Context))
          /\ \A ref \in ContextKeys :
                 ~(last'.op \in {"assign", "delete"} /\ last'.x = ref) =>
                     lookup(Context', ref, <<>>).ret = lookup(Context, ref, <<>>).ret]_vars

\* an assign to a key that was present: it is not the newest entry
C4_Witness ==
    /\ last.op = "assign"
    /\ Len(indirectObjects) = 2
    /\ indirectObjects[1][1] = last.x
    /\ indirectObjects[1][2] = last.arg

\* C5: enumerateIndirectObjects() returns the entries of the mapping, each
\* once, ordered by non-decreasing object number.
C5_EnumerateSorted ==
    last.op = "enumerateIndirectObjects" =>
        LET entries == last.ret
        IN  /\ Len(entries) = Len(indirectObjects)
            /\ {entries[i] : i \in 1..Len(entries)}
                   = {indirectObjects[i] : i \in 1..Len(indirectObjects)}
            /\ \A i, j \in 1..Len(entries) : entries[i][1] = entries[j][1] => i = j
            /\ \A i, j \in 1..Len(entries) :
                   i < j => entries[i][1].objectNumber <= entries[j][1].objectNumber

\* entries inserted in descending order, after a deletion
C5_Witness ==
    /\ last.op = "enumerateIndirectObjects"
    /\ Len(indirectObjects) = 2
    /\ indirectObjects[1][1].objectNumber > indirectObjects[2][1].objectNumber
    /\ maxDeleted >= 0

\* C6: delete(ref) returns whether ref was a key; afterwards ref is no key,
\* the other mappings, largestObjectNumber and the trailer are as before;
\* and nextRef()/register() return a number above that of every mapping
\* deleted so far, hence never a deleted one.
C6_DeleteFrame ==
    [][/\ last'.op = "delete" =>
              /\ last'.ret = MapHas(indirectObjects, last'.x)
              /\ ~MapHas(indirectObjects', last'.x)
              /\ indirectObjects' = SelectSeq(indirectObjects, LAMBDA e : e[1] # last'.x)
              /\ largestObjectNumber' = largestObjectNumber
              /\ trailerInfo' = trailerInfo
       /\ last'.op \in Allocators => last'.ret.objectNumber > maxDeleted]_vars

\* a delete that removed one of two mappings, the one numbered highest
C6_Witness ==
    /\ last.op = "delete"
    /\ last.ret = TRUE
    /\ Len(indirectObjects) = 1
    /\ last.x.objectNumber = largestObjectNumber

\* the variant a resolved object has: the stream classes are all Stream
VariantOf(object) ==
    IF object.cls \in {"PDFRawStream", "PDFContentStream"} THEN "PDFStream" ELSE object.cls

Requested(object, types) ==
    \E idx \in 1..Len(types) :
        IF types[idx] = "PDFNull" THEN object = PDFNull
        ELSE object # undefined /\ VariantOf(object) = types[idx]

Resolved(x) ==
    IF x.cls # "PDFRef" THEN x
    ELSE IF x \in ContextKeys
         THEN indirectObjects[CHOOSE i \in 1..Len(indirectObjects) : indirectObjects[i][1] = x][2]
         ELSE undefined

TypeMismatch == [kind |-> "throw", error |-> "UnexpectedObjectTypeError"]

\* C7: lookup resolves a reference through the mapping and passes any other
\* object through; with expected variants it returns the resolved object if
\* its variant is requested and fails with a type mismatch otherwise (also
\* for an unassigned reference); with none it returns the resolved object or
\* nothing; it never modifies the graph.
C7_Lookup ==
    /\ [](last.op = "lookup" =>
            IF last.arg = <<>>
            THEN last.ret = [kind |-> "return", value |-> Resolved(last.x)]
            ELSE IF Requested(Resolved(last.x), last.arg)
            THEN last.ret = [kind |-> "return", value |-> Resolved(last.x)]
            ELSE last.ret = TypeMismatch)
    /\ [][last'.op = "lookup" =>
              UNCHANGED <<largestObjectNumber, indirectObjects, trailerInfo,
                          pushGraphicsStateContentStreamRef,
                          popGraphicsStateContentStreamRef>>]_vars

\* a typed lookup of an unassigned reference failed, on a graph that is not empty
C7_Witness ==
    /\ last.op = "lookup"
    /\ last.x \in LookupRefs \ ContextKeys
    /\ last.arg = <<"PDFNull", "PDFDict">>
    /\ last.ret = TypeMismatch
    /\ ContextKeys # {}

\* C8: lookupMaybe returns nothing for an unassigned reference and for a
\* null the caller did not ask for; it returns null when null is asked for;
\* for a present non-null object it returns the object if its variant is
\* requested and fails with a type mismatch otherwise, as lookup does.
C8_LookupMaybe ==
    last.op = "lookupMaybe" =>
        LET resolved == Resolved(last.x)
            types == last.arg
            nullRequested == \E idx \in 1..Len(types) : types[idx] = "PDFNull"
        IN  /\ resolved = undefined => last.ret = [kind |-> "return", value |-> undefined]
            /\ resolved = PDFNull /\ ~nullRequested =>
                   last.ret = [kind |-> "return", value |-> undefined]
            /\ resolved = PDFNull /\ nullRequested =>
                   last.ret = [kind |-> "return", value |-> PDFNull]
            /\ resolved \notin {undefined, PDFNull} =>
                   /\ last.ret = IF Requested(resolved, types)
                                 THEN [kind |-> "return", value |-> resolved]
                                 ELSE TypeMismatch
                   /\ types # <<>> => last.ret = lookup(Context, last.x, types).ret

\* a reference that resolves to null, looked up with null asked for
C8_Witness ==
    /\ last.op = "lookupMaybe"
    /\ last.x \in ContextKeys
    /\ Resolved(last.x) = PDFNull
    /\ last.arg = <<"PDFNull", "PDFDict">>
    /\ last.ret = [kind |-> "return", value |-> PDFNull]

\* the configurations that leave every flag at its default
IsDefaultConfig(cfg) ==
    \A flag \in DOMAIN cfg : cfg[flag] = (flag = "deep")

\* C9: getLiteral(obj(literal)) under the default configuration is the
\* literal again, embedded Ref, String and HexString objects included.
C9_RoundTrip ==
    last.op = "getLiteral" /\ IsDefaultConfig(last.arg) /\ input \in Dense => last.ret = input

\* an array holding a Ref object and a keyed map whose value is an array with
\* a HexString object in it, converted back with no configuration given
C9_Witness ==
    /\ last.op = "getLiteral"
    /\ last.arg = <<>>
    /\ input = ArrayLit(<<PDFRef_of(1, 0),
                          ObjectLit([key \in {<<"K">>} |->
                              ArrayLit(<<PDFHexString_of("AB"), Number(1)>>)])>>)
    /\ last.ret = input

\* C10: the first request for a bracket stream registers one new indirect
\* object and returns its reference; every later request returns that
\* reference, adds no object and leaves largestObjectNumber alone.
C10_BracketMemo ==
    [][/\ last'.op = "getPushGraphicsStateContentStream" =>
              IF pushGraphicsStateContentStreamRef = undefined
              THEN /\ last'.ret \notin ContextKeys
                   /\ MapKeys(indirectObjects') = ContextKeys \cup {last'.ret}
                   /\ Len(indirectObjects') = Len(indirectObjects) + 1
                   /\ pushGraphicsStateContentStreamRef' = last'.ret
              ELSE /\ last'.ret = pushGraphicsStateContentStreamRef
                   /\ indirectObjects' = indirectObjects
                   /\ largestObjectNumber' = largestObjectNumber
       /\ last'.op = "getPopGraphicsStateContentStream" =>
              IF popGraphicsStateContentStreamRef = undefined
              THEN /\ last'.ret \notin ContextKeys
                   /\ MapKeys(indirectObjects') = ContextKeys \cup {last'.ret}
                   /\ Len(indirectObjects') = Len(indirectObjects) + 1
                   /\ popGraphicsStateContentStreamRef' = last'.ret
              ELSE /\ last'.ret = popGraphicsStateContentStreamRef
                   /\ indirectObjects' = indirectObjects
                   /\ largestObjectNumber' = largestObjectNumber
       /\ pushGraphicsStateContentStreamRef # undefined =>
              pushGraphicsStateContentStreamRef' = pushGraphicsStateContentStreamRef
       /\ popGraphicsStateContentStreamRef # undefined =>
              popGraphicsStateContentStreamRef' = popGraphicsStateContentStreamRef]_vars

\* a repeated request for the push stream, after its mapping was deleted and
\* other references were handed out
C10_Witness ==
    /\ last.op = "getPushGraphicsStateContentStream"
    /\ last.ret = pushGraphicsStateContentStreamRef
    /\ last.ret \notin ContextKeys
    /\ last.ret.objectNumber < largestObjectNumber

----------------------------------------------------------------------------
(* Properties of the permission encoders *)

\* bit k of P, numbered as in the PDF permission table: bit 1 is the least significant
PBit(k) == BitAt(last.ret.value, k - 1)

\* the permission is granted in the UserPermissions the encoder was given
Granted(name) ==
    Permission(PermissionsOrDefault(last.x), name)
        \in {Boolean(TRUE), lowResolution, highResolution}

PrintingHighResolution ==
    Permission(PermissionsOrDefault(last.x), "printing") = highResolution

\* the bits of the flags other than printing, revision 3 and later
FlagBitsR3 ==
    {<<4, "modifying">>, <<5, "copying">>, <<6, "annotating">>, <<9, "fillingForms">>,
     <<10, "contentAccessibility">>, <<11, "documentAssembly">>}

\* C13 as claimed: the revision 3+ encoder sets bit 3 iff printing is granted in
\* any form, bit 13 iff printing is "highResolution", bits 4, 5, 6, 9, 10, 11 iff
\* their flags are granted, and {printing: "highResolution", modifying: true}
\* sets bits 3, 13 and 4 and no other bit of 3..6, 9..13.
C13_Bit13HighResolution ==
    last.op = "getPermissionsR3" =>
        /\ PBit(3) = 1 <=> Granted("printing")
        /\ PBit(13) = 1 <=> PrintingHighResolution
        /\ \A fb \in FlagBitsR3 : PBit(fb[1]) = 1 <=> Granted(fb[2])
        /\ last.x = HighResolutionAndModifying =>
               \A k \in (3..6) \cup (9..13) : PBit(k) = 1 <=> k \in {3, 13, 4}

\* C13 amended: the revision 3+ encoder sets bit 3 iff printing is granted in any
\* form, bit 12 iff printing is "highResolution", bits 4, 5, 6, 9, 10, 11 iff
\* their flags are granted, and {printing: "highResolution", modifying: true}
\* sets bits 3, 12 and 4 and no other bit of 3..6, 9..12.
C13_Bit12HighResolution ==
    last.op = "getPermissionsR3" =>
        /\ PBit(3) = 1 <=> Granted("printing")
        /\ PBit(12) = 1 <=> PrintingHighResolution
        /\ \A fb \in FlagBitsR3 : PBit(fb[1]) = 1 <=> Granted(fb[2])
        /\ last.x = HighResolutionAndModifying =>
               \A k \in (3..6) \cup (9..12) : PBit(k) = 1 <=> k \in {3, 12, 4}

\* the revision 3+ encoder was given {printing: "highResolution", modifying: true}
C13_Witness ==
    /\ last.op = "getPermissionsR3"
    /\ last.x = HighResolutionAndModifying
    /\ last.ret = Number(-1844)

\* the named permission bits of the encoder that ran, each with its flag
NamedBits ==
    IF last.op = "getPermissionsR2"
    THEN {<<3, "printing">>, <<4, "modifying">>, <<5, "copying">>, <<6, "annotating">>}
    ELSE {<<3, "printing">>} \cup FlagBitsR3

NamedBitNumbers ==
    {nb[1] : nb \in NamedBits} \cup (IF last.op = "getPermissionsR3" THEN {12} ELSE {})

Encoders == {"getPermissionsR2", "getPermissionsR3"}

InInt32(n) == (0 - 2^30) - 2^30 <= n /\ n <= (2^30 - 1) + 2^30

\* C14 as claimed: P of either encoder is a 32-bit two's-complement integer in
\* which every bit that is not a named permission bit is 1, a permission bit is 1
\* only if its permission is granted, and all are 0 when none is granted.
C14_EveryReservedBitSet ==
    last.op \in Encoders =>
        /\ InInt32(last.ret.value)
        /\ \A k \in (1..32) \ NamedBitNumbers : PBit(k) = 1
        /\ \A nb \in NamedBits : PBit(nb[1]) = 1 => Granted(nb[2])
        /\ PBit(12) = 1 /\ last.op = "getPermissionsR3" => PrintingHighResolution
        /\ (\A name \in PermissionNames : ~Granted(name)) =>
               \A k \in NamedBitNumbers : PBit(k) = 0

\* C14 amended: P of either encoder is a 32-bit two's-complement integer in which
\* bits 1 and 2 are 0, every other bit that is not a named permission bit is 1,
\* a permission bit is 1 only if its permission is granted, and all permission
\* bits are 0 when none is granted.
C14_ReservedBits ==
    last.op \in Encoders =>
        /\ InInt32(last.ret.value)
        /\ PBit(1) = 0 /\ PBit(2) = 0
        /\ \A k \in (3..32) \ NamedBitNumbers : PBit(k) = 1
        /\ \A nb \in NamedBits : PBit(nb[1]) = 1 => Granted(nb[2])
        /\ PBit(12) = 1 /\ last.op = "getPermissionsR3" => PrintingHighResolution
        /\ (\A name \in PermissionNames : ~Granted(name)) =>
               \A k \in NamedBitNumbers : PBit(k) = 0

\* the revision 2 encoder ran on a UserPermissions that grants nothing
C14_Witness ==
    /\ last.op = "getPermissionsR2"
    /\ last.x # undefined
    /\ \A name \in PermissionNames : ~Granted(name)
    /\ last.ret = Number(-64)

----------------------------------------------------------------------------
(* Properties of the password processing *)

\* the characters of the password processed (none when it is absent)
Characters == IF last.x = undefined THEN <<>> ELSE last.x.codes

\* C15: for a password of n characters, all in 0..255, the legacy password
\* processing returns exactly 32 bytes: the first min(n, 32) characters, then,
\* when n < 32, the first 32 - n bytes of the padding constant; an absent
\* password gives the padding constant itself.
C15_PaddedPassword ==
    (/\ last.op = "processPasswordR2R3R4"
     /\ \A i \in 1..Len(Characters) : Characters[i] \in 0..255)
    => LET n == Len(Characters)
           bytes == last.ret.value.data
       IN  /\ last.ret.kind = "return"
           /\ last.ret.value.fn = "bytes"
           /\ last.ret.value.sigBytes = 32
           /\ Len(bytes) = 32
           /\ \A i \in 1..32 : i <= n => bytes[i] = Characters[i]
           /\ \A i \in 1..32 : i > n => bytes[i] = PASSWORD_PADDING[i - n]
           /\ last.x = undefined => bytes = PASSWORD_PADDING

\* a password of five single-byte characters was padded
C15_Witness ==
    /\ last.op = "processPasswordR2R3R4"
    /\ last.x = Password(5, 0)
    /\ last.ret.kind = "return"
    /\ last.ret.value.data = <<37, 74, 111, 148, 185>> \o SubSeq(PASSWORD_PADDING, 1, 27)

----------------------------------------------------------------------------
(* Properties of the construction of a security handler *)

ConfigurationError ==
    Throw(Error("Either an owner password or a user password must be specified."))

InvalidPasswordCharacter ==
    Throw(Error("Password contains one or more invalid characters."))

\* a password that is absent or empty
NotSupplied(password) == password \in {undefined, fromCharCode(<<>>)}

Constructed == last.op = "PDFSecurity.create" /\ last.ret.kind = "return"

\* C11: constructing a handler fails with the configuration error when neither
\* an owner password nor a user password is supplied (absent or empty), and no
\* handler comes out of it; when at least one is a non-empty string the
\* construction does not fail with that error.
C11_PasswordRequired ==
    last.op = "PDFSecurity.create" =>
        IF NotSupplied(last.x.ownerPassword) /\ NotSupplied(last.x.userPassword)
        THEN last.ret = ConfigurationError /\ security = undefined
        ELSE last.ret # ConfigurationError

\* a construction with an empty owner password and no user password failed
C11_Witness ==
    /\ last.op = "PDFSecurity.create"
    /\ last.x.ownerPassword = fromCharCode(<<>>)
    /\ last.x.userPassword = undefined
    /\ last.ret = ConfigurationError

\* the crypt filter method of an Encryption object ("none" when it has no CF)
CryptFilterMethod(encryption) ==
    IF GetProp(encryption, Name.CF) = undefined THEN "none"
    ELSE IF GetProp(GetProp(GetProp(encryption, Name.CF), Name.StdCF), Name.CFM) = String(Name.AESV2) THEN "AESV2"
    ELSE IF GetProp(GetProp(GetProp(encryption, Name.CF), Name.StdCF), Name.CFM) = String(Name.AESV3) THEN "AESV3"
    ELSE "other"

\* (V, R, key bits, crypt filter) of a handler
Parameters(handler) ==
    <<GetProp(handler.encryption, Name.V).value, GetProp(handler.encryption, Name.R).value,
      handler.keyBits, CryptFilterMethod(handler.encryption)>>

\* C12: a constructed handler has (V, R, key bits, crypt filter) fixed by the
\* version alone: 1.4 and 1.5 give (2, 3, 128, none), 1.6 and 1.7 give
\* (4, 4, 128, AESV2), 1.7ext3 gives (5, 5, 256, AESV3), every other version
\* gives (1, 2, 40, none); so (V, R) is one of (1,2), (2,3), (4,4), (5,5).
C12_VersionTable ==
    Constructed =>
        /\ Parameters(last.ret.value) =
               (IF last.arg \in {"1.4", "1.5"} THEN <<2, 3, 128, "none">>
                ELSE IF last.arg \in {"1.6", "1.7"} THEN <<4, 4, 128, "AESV2">>
                ELSE IF last.arg = "1.7ext3" THEN <<5, 5, 256, "AESV3">>
                ELSE <<1, 2, 40, "none">>)
        /\ SubSeq(Parameters(last.ret.value), 1, 2)
               \in {<<1, 2>>, <<2, 3>>, <<4, 4>>, <<5, 5>>}
        /\ security = last.ret.value

\* a handler was constructed for version 1.5 with a user password only
C12_Witness ==
    /\ Constructed
    /\ last.arg = "1.5"
    /\ last.x = SecurityOptions(undefined, fromCharCode(<<117>>), undefined)
    /\ Parameters(security) = <<2, 3, 128, "none">>

\* a password with a character outside the single-byte range, at any position
HasWideCharacter(password) ==
    /\ password # undefined
    /\ \E index \in 1..Len(password.codes) : password.codes[index] > 255

\* C16: with at least one password supplied, a construction on the revision 2
\* to 4 path fails with the invalid-password-character error whenever the user
\* password, or the owner password when one is supplied, has a character above
\* 255 at any position; on the revision 5 path the construction succeeds.
C16_WideCharacterRejected ==
    (/\ last.op = "PDFSecurity.create"
     /\ ~(NotSupplied(last.x.ownerPassword) /\ NotSupplied(last.x.userPassword)))
    => IF Algorithm(last.arg) = 5
       THEN last.ret.kind = "return"
       ELSE (\/ HasWideCharacter(last.x.userPassword)
             \/ (~NotSupplied(last.x.ownerPassword)
                    /\ HasWideCharacter(last.x.ownerPassword)))
            => last.ret = InvalidPasswordCharacter

\* the entries of a handler that the passwords are checked against, and its key
Entries(handler) ==
    [O |-> GetProp(handler.encryption, Name.O), U |-> GetProp(handler.encryption, Name.U),
     key |-> handler.encryptionKey]

\* two handlers were constructed with the same options for the same version,
\* on the revision 2 to 4 path
TwoLegacyConstructions ==
    /\ last.op = "PDFSecurity.create"
    /\ previous # undefined
    /\ previous.x = last.x
    /\ Algorithm(last.arg) # 5

\* the handler constructed before the one held
Earlier == previous.ret.value

\* C17 as stated: two constructions on the revision 2 to 4 path with the same
\* options and version, at any two moments, give the same O, U and key.
C17_SameEntries ==
    TwoLegacyConstructions => Entries(Earlier) = Entries(security)

\* C17: two constructions on the revision 2 to 4 path with the same options and
\* version give the same O at any two moments, and the same U and key
\* whenever they obtained the same file identifier.
C17_SameEntriesForSameFileId ==
    TwoLegacyConstructions =>
        /\ Entries(Earlier).O = Entries(security).O
        /\ Earlier.id = security.id => Entries(Earlier) = Entries(security)

\* two constructions at different moments: same O, different file identifiers
C17_Witness ==
    /\ TwoLegacyConstructions
    /\ Earlier.id # security.id
    /\ Entries(Earlier).O = Entries(security).O
    /\ Entries(Earlier).U # Entries(security).U

\* the initialization vector an invocation put in front of its ciphertext
IVOf(invocation) == SliceBytes(WordArray_fromBuffer(invocation.ret), 0, 16)

\* C18: for the AES algorithms (V 4 and 5) every invocation of an encryption
\* closure uses a fresh 16-byte initialization vector: no two invocations of
\* the same closure share one.
C18_FreshIVPerInvocation ==
    \A i \in 1..Len(outputs) : \A j \in 1..Len(outputs) :
        (i < j /\ outputs[i].fn.algorithm = "AES") =>
            /\ IVOf(outputs[i]).sigBytes = 16
            /\ IVOf(outputs[i]) # IVOf(outputs[j])

----------------------------------------------------------------------------
(* Properties of encrypt() and of the Encrypt dictionary *)

\* C19: a call of encrypt() leaves in the trailer an ID that is the array of
\* two hex strings of the handler's 16-byte file identifier, and an Encrypt
\* entry that is the reference of a newly registered indirect object, which
\* lookup resolves to the dictionary made from the handler's Encryption object.
C19_EncryptSetsTrailer ==
    [][last'.op = "encrypt" =>
          /\ security'.id.sigBytes = 16
          /\ trailerInfo'.ID = PDFArray_of(<<PDFHexString_fromBytes(security'.id),
                                             PDFHexString_fromBytes(security'.id)>>)
          /\ trailerInfo'.Encrypt.cls = "PDFRef"
          /\ ~MapHas(indirectObjects, trailerInfo'.Encrypt)
          /\ Len(indirectObjects') = Len(indirectObjects) + 1
          /\ lookup(Context', trailerInfo'.Encrypt, <<"PDFDict">>).ret
                 = Return(obj(security'.encryption))
          /\ obj(security'.encryption).cls = "PDFDict"
          /\ last'.ret = security']_vars

\* encrypt() was called on a handler of the 256-bit algorithm
C19_Witness ==
    /\ last.op = "encrypt"
    /\ security.keyBits = 256
    /\ trailerInfo.Encrypt = PDFRef_of(1, 0)
    /\ MapGet(indirectObjects, PDFRef_of(1, 0)) = obj(security.encryption)

\* the dictionary obj makes of the Encryption object of the handler
EncryptDict == obj(security.encryption).dict

Has(dict, key) == PDFName_of(key) \in DOMAIN dict

Entry(dict, key) == dict[PDFName_of(key)]

\* the entry is a hex string of n bytes
IsBytes(dict, key, n) ==
    /\ Entry(dict, key).cls = "PDFHexString"
    /\ Entry(dict, key).bytes.sigBytes = n

\* C20: the Encrypt dictionary of a handler always has Filter = Standard, V, R,
\* O, U and P; it has Length (the key bits) iff V >= 2; it has CF with StdCF
\* (AuthEvent DocOpen, CFM AESV2 for V 4 and AESV3 for V 5, Length the key
\* bytes), StmF and StrF (both StdCF) iff V is 4 or 5; it has OE and UE (32
\* bytes) and Perms (16 bytes) iff V is 5; O and U are 32 bytes for revisions
\* 2 to 4 and 48 bytes for revision 5.
C20_EncryptDictionary ==
    security # undefined =>
        LET dict == EncryptDict
            v == Entry(dict, Name.V).numberValue
            r == Entry(dict, Name.R).numberValue
        IN  /\ \A key \in {Name.Filter, Name.V, Name.R, Name.O, Name.U, Name.P} : Has(dict, key)
            /\ Entry(dict, Name.Filter) = PDFName_of(Name.Standard)
            /\ v \in {1, 2, 4, 5} /\ r \in {2, 3, 4, 5}
            /\ Entry(dict, Name.P).cls = "PDFNumber"
            /\ Has(dict, Name.Length) <=> v >= 2
            /\ Has(dict, Name.Length) => Entry(dict, Name.Length) = PDFNumber_of(security.keyBits)
            /\ \A key \in {Name.CF, Name.StmF, Name.StrF} : Has(dict, key) <=> v \in {4, 5}
            /\ v \in {4, 5} =>
                   /\ Entry(dict, Name.StmF) = PDFName_of(Name.StdCF)
                   /\ Entry(dict, Name.StrF) = PDFName_of(Name.StdCF)
                   /\ Entry(dict, Name.CF).cls = "PDFDict"
                   /\ DOMAIN Entry(dict, Name.CF).dict = {PDFName_of(Name.StdCF)}
                   /\ Entry(Entry(dict, Name.CF).dict, Name.StdCF) =
                          PDFDict_of([name \in {PDFName_of(Name.AuthEvent), PDFName_of(Name.CFM),
                                                PDFName_of(Name.Length)} |->
                              IF name = PDFName_of(Name.AuthEvent) THEN PDFName_of(Name.DocOpen)
                              ELSE IF name = PDFName_of(Name.CFM)
                                   THEN PDFName_of(IF v = 4 THEN Name.AESV2 ELSE Name.AESV3)
                              ELSE PDFNumber_of(security.keyBits \div 8)])
            /\ \A key \in {Name.OE, Name.UE, Name.Perms} : Has(dict, key) <=> v = 5
            /\ v = 5 => /\ IsBytes(dict, Name.OE, 32)
                        /\ IsBytes(dict, Name.UE, 32)
                        /\ IsBytes(dict, Name.Perms, 16)
            /\ IsBytes(dict, Name.O, IF r = 5 THEN 48 ELSE 32)
            /\ IsBytes(dict, Name.U, IF r = 5 THEN 48 ELSE 32)

\* a handler of revision 3 and its 32-byte U
C20_Witness ==
    /\ security # undefined
    /\ Entry(EncryptDict, Name.R) = PDFNumber_of(3)
    /\ IsBytes(EncryptDict, Name.U, 32)
    /\ ~Has(EncryptDict, Name.CF)
    /\ Has(EncryptDict, Name.Length)

----------------------------------------------------------------------------
(* Properties of obj on keyed maps and on objects                          *)

\* C21: the Dict obj makes of a keyed map has no entry for a key whose value
\* is undefined and holds the null object for a key whose value is null; obj
\* of a value that is an Object already is that object; obj adds no indirect
\* object to the graph.
C21_ObjSkipsAbsent ==
    last.op = "obj" =>
        /\ input.cls = "Object" =>
              /\ last.ret.cls = "PDFDict"
              /\ \A key \in DOMAIN input.props :
                    /\ input.props[key] = undefined => ~Has(last.ret.dict, key)
                    /\ input.props[key] = null =>
                          Has(last.ret.dict, key) /\ Entry(last.ret.dict, key) = PDFNull
        /\ IsPDFObject(input) => last.ret = input
        /\ indirectObjects = create.indirectObjects
        /\ largestObjectNumber = create.largestObjectNumber

\* a keyed map with one undefined value and one null value was converted
C21_Witness ==
    /\ last.op = "obj"
    /\ input = ObjectLit([key \in Keys |-> IF key = <<"K">> THEN undefined ELSE null])
    /\ DOMAIN last.ret.dict = {PDFName_of(<<"#">>)}
----------------------------------------------------------------------------
(* Properties of the handler across constructions                          *)

\* a handler was constructed on the revision 2 to 4 path with a user password
\* and no owner password, and then one with that password as both passwords
UserOnlyThenUserAsOwner ==
    /\ last.op = "PDFSecurity.create"
    /\ previous # undefined
    /\ previous.x.ownerPassword = undefined
    /\ last.x = WithUserAsOwner(previous.x)
    /\ Algorithm(last.arg) # 5

\* C22: on the revision 2 to 4 path the O entry obtained with a user password
\* and no owner password is the O entry obtained with that password given as
\* the owner password too, for the same format version.
C22_OwnerDefaultsToUser ==
    UserOnlyThenUserAsOwner => Entries(Earlier).O = Entries(security).O

\* the two constructions were made, for the password "u", and gave the same
\* 32-byte O
C22_Witness ==
    /\ UserOnlyThenUserAsOwner
    /\ last.x.userPassword = fromCharCode(<<117>>)
    /\ Entries(Earlier).O = Entries(security).O
    /\ Entries(security).O.sigBytes = 32
----------------------------------------------------------------------------
(* Properties of the entries of revision 5                                 *)

\* the bytes of an entry of the Encryption object of the handler held
EntryBytes(key) == WordArray_fromBuffer(GetProp(security.encryption, key))

\* what a SHA-256 digest was taken of, and what an AES ciphertext was made of
HashInput(digest) == digest.args[1]

Plaintext(ciphertext) == ciphertext.args[1]

KeyOf(ciphertext) == ciphertext.args[2]

\* a handler of revision 5 is held, the last operation having constructed it
ConstructedR5 == Constructed /\ Algorithm(last.arg) = 5

\* C23: on the revision 5 path U is 32 hash bytes, the 8-byte validation salt
\* that was hashed, and an 8-byte key salt; the key wrapping UE is the hash of
\* an input ending with bytes 40..47 of U; the key wrapping OE is the hash of
\* an input ending with bytes 40..47 of O and then the 48 bytes of U; the
\* input hashed into O ends with the 48 bytes of U; UE, OE and Perms encrypt
\* with or under the one 32-byte file key, which is the key of every closure
\* getEncryptFn returns.
C23_EntriesR5Consistent ==
    ConstructedR5 =>
        LET U == EntryBytes(Name.U)
            O == EntryBytes(Name.O)
            UE == EntryBytes(Name.UE)
            OE == EntryBytes(Name.OE)
            Perms == EntryBytes(Name.Perms)
            userInput == HashInput(KeyOf(UE))
            ownerInput == HashInput(KeyOf(OE))
            hashedU == HashInput(SliceBytes(U, 0, 32))
            hashedO == HashInput(SliceBytes(O, 0, 32))
        IN  /\ U.sigBytes = 48
            /\ SliceBytes(U, 0, 32).fn = "SHA256"
            /\ SliceBytes(U, 32, 8) = SliceBytes(hashedU, hashedU.sigBytes - 8, 8)
            /\ SliceBytes(U, 32, 8).fn = "random" /\ SliceBytes(U, 40, 8).fn = "random"
            /\ KeyOf(UE).fn = "SHA256"
            /\ SliceBytes(userInput, userInput.sigBytes - 8, 8) = SliceBytes(U, 40, 8)
            /\ KeyOf(OE).fn = "SHA256"
            /\ SliceBytes(ownerInput, ownerInput.sigBytes - 56, 8) = SliceBytes(O, 40, 8)
            /\ SliceBytes(ownerInput, ownerInput.sigBytes - 48, 48) = U
            /\ SliceBytes(O, 0, 32).fn = "SHA256"
            /\ SliceBytes(hashedO, hashedO.sigBytes - 48, 48) = U
            /\ security.encryptionKey.sigBytes = 32
            /\ Plaintext(UE) = security.encryptionKey
            /\ Plaintext(OE) = security.encryptionKey
            /\ KeyOf(Perms) = security.encryptionKey
            /\ \A obj_ \in ObjectNumbers, gen \in GenerationNumbers, drawn \in Entropy :
                   getEncryptFn(security, obj_, gen, drawn).value.key = security.encryptionKey

\* a handler of revision 5 whose four salts are not all the same bytes: the
\* key salts of U and of O differ, and each differs from its validation salt
C23_Witness ==
    /\ ConstructedR5
    /\ SliceBytes(EntryBytes(Name.U), 40, 8) # SliceBytes(EntryBytes(Name.O), 40, 8)
    /\ SliceBytes(EntryBytes(Name.U), 40, 8) # SliceBytes(EntryBytes(Name.U), 32, 8)
    /\ SliceBytes(EntryBytes(Name.O), 40, 8) # SliceBytes(EntryBytes(Name.O), 32, 8)
    /\ EntryBytes(Name.UE).sigBytes = 32
----------------------------------------------------------------------------
(* Properties of the encryption closures                                   *)

\* the low three bytes of an object number and the low two of a generation
\* number, the least significant first
ObjectBytes(o, g) ==
    <<o % 256, (o \div 256) % 256, (o \div 65536) % 256, g % 256, (g \div 256) % 256>>

\* getEncryptFn was the last operation, on a handler of V below 5
LegacyEncryptFn ==
    /\ last.op = "getEncryptFn"
    /\ last.ret.kind = "return"
    /\ GetProp(security.encryption, Name.V).value < 5

\* C24: for V 1, 2 and 4 the key of the closure is the MD5 digest of the file
\* key followed by the three low bytes of the object number and the two low
\* bytes of the generation number, least significant first (for V 4 followed
\* by the bytes "sAlT" too); another pair gives the same key exactly when it
\* agrees modulo 2^24 and modulo 2^16; the RC4 key has 10 bytes for V 1 and 16
\* bytes for V 2.
C24_ObjectKey ==
    LegacyEncryptFn =>
        LET o == last.x.value
            g == last.arg.value
            v == GetProp(security.encryption, Name.V).value
            key == last.ret.value.key
            keyInput == concat(security.encryptionKey, Bytes(ObjectBytes(o, g)))
        IN  /\ key.fn = "MD5" /\ key.data = <<1>>
            /\ v \in {1, 2} =>
                  /\ HashInput(key) = keyInput
                  /\ key.sigBytes = Min(16, security.encryptionKey.sigBytes + 5)
            /\ v = 1 => key.sigBytes = 10 /\ keyInput.sigBytes = 10
            /\ v = 2 => key.sigBytes = 16 /\ keyInput.sigBytes = 21
            /\ v = 4 => HashInput(key) = concat(keyInput, Bytes(<<115, 65, 108, 84>>))
            /\ \A o2 \in ObjectNumbers, g2 \in GenerationNumbers :
                   getEncryptFn(security, o2, g2, 0).value.key = key
                       <=> (o2 % 2^24 = o % 2^24 /\ g2 % 2^16 = g % 2^16)

\* the closure for object 16777217, generation 65536 of a V 1 handler: its key
\* is the one of object 1, generation 0
C24_Witness ==
    /\ LegacyEncryptFn
    /\ GetProp(security.encryption, Name.V).value = 1
    /\ last.x.value = 16777217 /\ last.arg.value = 65536
    /\ last.ret.value.key = getEncryptFn(security, 1, 0, 0).value.key
    /\ last.ret.value.key # getEncryptFn(security, 1, 256, 0).value.key

\* C25: a closure of V 1 or 2 gives as many bytes as the buffer it is given;
\* a closure of V 4 or 5 gives 16 + 16 * (n \div 16 + 1) bytes for a buffer of
\* n bytes: a 16-byte iv, then the ciphertext of the buffer under AES in CBC
\* mode with PKCS#7 padding and that iv; for V 5 the key is the file key,
\* whatever the object and generation numbers.
C25_CiphertextLength ==
    last.op = "encryptFn" =>
        LET v == GetProp(security.encryption, Name.V).value
            n == last.arg.sigBytes
            out == WordArray_fromBuffer(last.ret)
            ciphertext == SliceBytes(out, 16, out.sigBytes - 16)
        IN  /\ v \in {1, 2} =>
                  /\ out.sigBytes = n
                  /\ out.fn = "RC4" /\ Plaintext(out) = WordArray_fromBuffer(last.arg)
            /\ v \in {4, 5} =>
                  /\ out.sigBytes = 16 + 16 * ((n \div 16) + 1)
                  /\ SliceBytes(out, 0, 16).fn = "random"
                  /\ ciphertext.fn = "AES-CBC-Pkcs7"
                  /\ Plaintext(ciphertext) = WordArray_fromBuffer(last.arg)
                  /\ ciphertext.args[3] = SliceBytes(out, 0, 16)
            /\ v = 5 => KeyOf(ciphertext) = security.encryptionKey

\* a closure of V 5 was given a whole block and gave three blocks
C25_Witness ==
    /\ last.op = "encryptFn"
    /\ GetProp(security.encryption, Name.V).value = 5
    /\ last.arg.sigBytes = 16
    /\ last.ret.sigBytes = 48

\* the graph and the trailer
Graph ==
    <<indirectObjects, largestObjectNumber, trailerInfo,
      pushGraphicsStateContentStreamRef, popGraphicsStateContentStreamRef>>

\* the closure held has the key getEncryptFn derives now for one of the objects
KeyStillDerived ==
    encryptFn # undefined =>
        \E id \in ObjectIds :
            getEncryptFn(security, id[1], id[2], 0).value.key = encryptFn.key

\* C26: a getEncryptFn call and an invocation of a closure, before or after
\* encrypt(), leave the key, the file identifier, the key length and the
\* Encryption object of the handler as they were, and the graph and trailer
\* too; the key of the closure obtained earlier is the key getEncryptFn
\* derives for its object at every later moment, and two calls in a row for
\* the same object and generation give the same key.
C26_KeyMaterialConstant ==
    /\ []KeyStillDerived
    /\ [][/\ last'.op \in {"getEncryptFn", "encryptFn"} =>
             /\ security' = security
             /\ Graph' = Graph
          /\ (/\ last.op = "getEncryptFn" /\ last'.op = "getEncryptFn"
              /\ last.x = last'.x /\ last.arg = last'.arg) =>
                 last'.ret.value.key = last.ret.value.key]_vars

\* after encrypt() a closure obtained before it was invoked, and its key is the
\* one derived for object 258, generation 1 now
C26_Witness ==
    /\ last.op = "encryptFn"
    /\ trailerInfo.Encrypt # undefined
    /\ Len(outputs) = 2
    /\ GetProp(security.encryption, Name.V).value = 2
    /\ encryptFn.key = getEncryptFn(security, 258, 1, 0).value.key
    /\ encryptFn.key # getEncryptFn(security, 1, 0, 0).value.key
----------------------------------------------------------------------------
(* Properties of the derivation loops                                      *)

Derived == input.pc = "done"

\* the key with every byte xored by i, stated on the bytes of the key
XoredBy(key, i) ==
    IF i = 0 THEN key
    ELSE [cls |-> "WordArray", fn |-> "xor", sigBytes |-> key.sigBytes,
          args |-> <<key>>, data |-> <<i>>]

\* the number of MD5 applications that gave a digest
Applications(digest) == digest.data[1]

\* the rounds a derivation that ended has run, the keys its RC4 rounds used,
\* and what it leaves
RoundsOfRevision ==
    Derived =>
        /\ input.rounds = [ownerHash |-> IF input.r = 2 THEN 1 ELSE 51,
                           ownerRC4 |-> IF input.r = 2 THEN 1 ELSE 20,
                           keyHash |-> IF input.r = 2 THEN 1 ELSE 51,
                           userRC4 |-> IF input.r = 2 THEN 0 ELSE 20]
        /\ Applications(input.digest) = input.rounds.ownerHash
        /\ input.keyBits = 128 => Applications(input.encryptionKey) = input.rounds.keyHash
        /\ Len(input.ownerKeys) = input.rounds.ownerRC4
        /\ \A i \in 0..(Len(input.ownerKeys) - 1) :
               input.ownerKeys[i + 1] =
                   XoredBy(WithSigBytes(input.digest, input.keyBits \div 8), i)
        /\ Len(input.userKeys) = input.rounds.userRC4
        /\ \A i \in 0..(Len(input.userKeys) - 1) :
               input.userKeys[i + 1] = XoredBy(input.encryptionKey, i)
        /\ input.ownerPasswordEntry =
               getOwnerPasswordR2R3R4(input.r, input.keyBits, input.paddedUserPassword,
                                      input.paddedOwnerPassword)
        /\ input.encryptionKey =
               getEncryptionKeyR2R3R4(input.r, input.keyBits, input.id,
                                      input.paddedUserPassword, input.ownerPasswordEntry,
                                      input.permissions)
        /\ input.userPasswordEntry =
               IF input.r = 2 THEN getUserPasswordR2(input.encryptionKey)
               ELSE getUserPasswordR3R4(input.id, input.encryptionKey)

\* C27: the derivation of a handler of revision 2 to 4 ends, and its loops
\* have run a number of rounds the revision fixes: 1 (R2) or 51 (R3, R4) MD5
\* rounds on the owner password, 1 or 20 RC4 rounds for the owner entry, 1 or
\* 51 MD5 rounds for the encryption key, 20 RC4 rounds for the user entry of
\* R3 and R4; RC4 round i has used the key as it was before the loop with
\* every byte xored by i, round 0 the key itself.  What the loops leave is
\* what the derivation functions return.
C27_FixedRounds == <>Derived /\ []RoundsOfRevision

\* a derivation of revision 3 ended, for an owner password that differs from
\* the user password
C27_Witness ==
    /\ Derived
    /\ input.r = 3
    /\ input.paddedOwnerPassword # input.paddedUserPassword
    /\ Len(input.ownerKeys) = 20
    /\ input.userPasswordEntry.sigBytes = 32
----------------------------------------------------------------------------
(* Properties of the graph across the bracket getters, the handler         *)
(* constructions and encrypt()                                             *)

\* C28: whatever graph operations came before, the reference a bracket getter
\* returns is a key of the graph and lookup resolves it to a content stream,
\* and the push reference differs from the pop reference.
C28_BracketRefResolves ==
    last.op \in Getters =>
        /\ last.ret \in ContextKeys
        /\ lookup(Context, last.ret, <<"PDFContentStream">>).ret.kind = "return"
        /\ pushGraphicsStateContentStreamRef # undefined =>
               pushGraphicsStateContentStreamRef # popGraphicsStateContentStreamRef

\* C29: a construction of a handler, whether it returns or throws, leaves the
\* reference-to-object mapping, largestObjectNumber and the four trailer
\* slots as they were; one that throws gives no handler and leaves the handler
\* held as it was; whatever step changes the graph or the trailer is encrypt().
C29_ConstructionFrame ==
    [][/\ last'.op = "PDFSecurity.create" =>
              /\ Graph' = Graph
              /\ last'.ret.kind = "throw" =>
                     /\ "value" \notin DOMAIN last'.ret
                     /\ security' = security
       /\ Graph' # Graph => last'.op = "encrypt"]_vars

\* a construction was refused on a document whose catalog is registered and
\* named in the trailer
C29_Witness ==
    /\ last.op = "PDFSecurity.create"
    /\ last.ret.kind = "throw"
    /\ trailerInfo.Root # undefined
    /\ MapHas(indirectObjects, trailerInfo.Root)

\* a construction succeeded on such a document
C29_WitnessSuccess ==
    /\ last.op = "PDFSecurity.create"
    /\ last.ret.kind = "return"
    /\ trailerInfo.Root # undefined
    /\ MapHas(indirectObjects, trailerInfo.Root)

\* the references under which the graph holds the Encrypt dictionary of the
\* handler
EncryptDictionaries ==
    IF security = undefined THEN {}
    ELSE {key \in MapKeys(indirectObjects) :
              MapGet(indirectObjects, key) = obj(security.encryption)}

\* the number of Encrypt dictionaries a step added
\* (the handler is the same before and after an encrypt() call)
AddedDictionaries(before, after) ==
    Cardinality({key \in MapKeys(after) : MapGet(after, key) = obj(security.encryption)})
        - Cardinality({key \in MapKeys(before) :
                           MapGet(before, key) = obj(security.encryption)})

\* C30: a call of encrypt() adds one indirect object, the Encrypt dictionary,
\* under a reference that was no key, and the trailer's Encrypt slot is that
\* reference; the ID array goes into the trailer itself; largestObjectNumber
\* grows by one; every mapping there was is kept, and so are the Root and Info
\* slots; a further call on the same handler adds a further dictionary with
\* the same fields, so that the graph holds one per call.
C30_EncryptAddsOneObject ==
    [][last'.op = "encrypt" =>
          /\ MapKeys(indirectObjects') = MapKeys(indirectObjects) \cup {trailerInfo'.Encrypt}
          /\ trailerInfo'.Encrypt \notin MapKeys(indirectObjects)
          /\ Len(indirectObjects') = Len(indirectObjects) + 1
          /\ MapGet(indirectObjects', trailerInfo'.Encrypt) = obj(security.encryption)
          /\ trailerInfo'.ID.cls = "PDFArray"
          /\ largestObjectNumber' = largestObjectNumber + 1
          /\ trailerInfo'.Encrypt = PDFRef_of(largestObjectNumber', 0)
          /\ \A key \in MapKeys(indirectObjects) :
                 MapGet(indirectObjects', key) = MapGet(indirectObjects, key)
          /\ trailerInfo'.Root = trailerInfo.Root
          /\ trailerInfo'.Info = trailerInfo.Info
          /\ security' = security
          /\ AddedDictionaries(indirectObjects, indirectObjects') = 1]_vars

\* encrypt() was called twice on a handler: the graph holds two Encrypt
\* dictionaries and the trailer names the second
C30_Witness ==
    /\ last.op = "encrypt"
    /\ EncryptDictionaries = {PDFRef_of(1, 0), PDFRef_of(2, 0)}
    /\ trailerInfo.Encrypt = PDFRef_of(2, 0)
====
